---- MODULE Spec2Model ----
(***************************************************************************)
(* A model of the Pi Pico game engine: the frame scheduler of              *)
(* Engine/engine_core.py (edge-triggered input, double-tap gesture, frame  *)
(* pacing), the drawing layer of Engine/gfx_pico.py and the ILI9341 bus    *)
(* driver of Driver/tft_ili9341.py.                                        *)
(***************************************************************************)
EXTENDS Integers, Sequences, FiniteSets, TLC

VARIABLES
    \* ---- Engine (engine_core.py) ----
    pc,                  \* position of Engine.run
    running,             \* Engine._running
    current_input,       \* Engine._current_input (an InputState)
    prev_input,          \* Engine._prev_input    (an InputState)
    last_up_press_time,  \* Engine._last_up_press_time (None or a ticks_ms value)
    now,                 \* run(): local now
    last_time,           \* run(): local last_time
    dt_ms,               \* run(): local dt_ms
    first_frame,         \* run(): local first_frame
    \* ---- environment ----
    clock,               \* real time in ms since power-up (ticks_ms is clock mod TICKS_PERIOD)
    game,                \* the attributes the game object exposes (hasattr)
    needs_redraw,        \* GameBase.needs_redraw
    \* ---- observation of the run ----
    tick,                \* number of ticks started
    calls,               \* what run() has invoked so far in the current tick, in order
    fired,               \* the double-tap branch was taken in the current tick
    cand_real,           \* real time and tick at which the stored candidate was recorded
    up_outcomes,         \* outcomes ("fire" / "cand") of the latest up presses, oldest first
    raws,                \* <<buttons held on the preceding tick, buttons held on this tick>>
    up_trace,            \* <<raw up, up_pressed>> per tick, when recorded
    run_start,           \* the number of ticks started before the latest call of run()
    hook,                \* what should_redraw returned in the current tick, if asked
    failure,             \* the game callback that raised during run(), if any
    slept,               \* the argument of the current tick's sleep_ms, None when not called
    last_fire_tick,      \* the latest tick on which the double-tap branch was taken,
                         \* None when it never was
    \* ---- PicoGFX (gfx_pico.py) over ILI9341 (tft_ili9341.py) ----
    text_cache,          \* PicoGFX._text_cache: (text, colour, bg, scale) -> sprite
    bus,                 \* pin and SPI events of the most recent drawing call, in order
    call,                \* the most recent drawing call and its arguments
    ret,                 \* what the most recent drawing call returned
    allocs,              \* sizes of the bytearrays the most recent drawing call allocated
    renders,             \* how often _get_text_sprite has rasterized each key since the
                         \* cache was last emptied
    \* ---- BlackjackGame (blackjack.py) ----
    bj,                  \* the fields of the BlackjackGame object
    bj_obs               \* the latest callback of the game invoked, and since the latest
                         \* stand the sum of the dt given to update in dealer_turn (ms)
                         \* and the number of dealer steps run

engine_vars == <<pc, running, current_input, prev_input, last_up_press_time,
                 now, last_time, dt_ms, first_frame>>
engine_vars_but_pc == <<running, current_input, prev_input, last_up_press_time,
                        now, last_time, dt_ms, first_frame>>
env_vars == <<clock, game, needs_redraw>>
gfx_vars == <<text_cache, bus, call, ret, allocs, renders>>
obs_vars == <<tick, calls, fired, cand_real, up_outcomes, raws, up_trace,
              run_start, hook, failure, slept, last_fire_tick>>

\* Python's None where a tick value may stand (tick values are never negative)
None == -1

\* ---------------------------------------------------------------- bounds
MaxTicks == 6
MaxInputTicks == 5
MaxStretches == 2

\* ------------------------------------------------------- program constants
double_tap_threshold_ms == 400
target_fps == 30
\* time.ticks_ms() counts modulo this period on the rp2 port (2^30)
TICKS_PERIOD == 1073741824

\* int(self.frame_time * 1000) with frame_time = 1.0 / target_fps
frame_ms == 1000 \div target_fps

\* ------------------------------------------------------------ InputState
Buttons == <<"up", "down", "left", "right", "a", "b">>
ButtonSet == {Buttons[i] : i \in 1..Len(Buttons)}

\* InputState(): all levels and all just-pressed flags False
InputState ==
    [up |-> FALSE, down |-> FALSE, left |-> FALSE, right |-> FALSE,
     a |-> FALSE, b |-> FALSE,
     up_pressed |-> FALSE, down_pressed |-> FALSE, left_pressed |-> FALSE,
     right_pressed |-> FALSE, a_pressed |-> FALSE, b_pressed |-> FALSE]

\* what an input provider returns when the buttons of S are held
Snapshot(S) ==
    [InputState EXCEPT !.up = "up" \in S, !.down = "down" \in S,
                       !.left = "left" \in S, !.right = "right" \in S,
                       !.a = "a" \in S, !.b = "b" \in S]

Level(s, btn) ==
    CASE btn = "up" -> s.up [] btn = "down" -> s.down [] btn = "left" -> s.left
      [] btn = "right" -> s.right [] btn = "a" -> s.a [] btn = "b" -> s.b

\* the buttons a snapshot reports as held
Held(s) == {btn \in ButtonSet : Level(s, btn)}

Pressed(s, btn) ==
    CASE btn = "up" -> s.up_pressed [] btn = "down" -> s.down_pressed
      [] btn = "left" -> s.left_pressed [] btn = "right" -> s.right_pressed
      [] btn = "a" -> s.a_pressed [] btn = "b" -> s.b_pressed

\* -------------------------------------------------------------- time
\* time.ticks_ms(): the millisecond counter, which wraps around
ticks_ms == clock % TICKS_PERIOD

\* time.ticks_diff(end, start): signed difference of two wrapping tick values
ticks_diff(end, start) ==
    ((end - start + TICKS_PERIOD \div 2) % TICKS_PERIOD) - TICKS_PERIOD \div 2

\* ----------------------------------------------------- Engine._update_input
\* a mutant: level-triggered instead of edge-triggered
update_input_level(prev, raw) ==
    [up |-> raw.up, down |-> raw.down, left |-> raw.left,
     right |-> raw.right, a |-> raw.a, b |-> raw.b,
     up_pressed |-> raw.up, down_pressed |-> raw.down,
     left_pressed |-> raw.left, right_pressed |-> raw.right,
     a_pressed |-> raw.a, b_pressed |-> raw.b]

\* cur as built by _update_input from prev = self._current_input and raw
update_input(prev, raw) ==
    [up |-> raw.up, down |-> raw.down, left |-> raw.left,
     right |-> raw.right, a |-> raw.a, b |-> raw.b,
     up_pressed |-> raw.up /\ ~prev.up,
     down_pressed |-> raw.down /\ ~prev.down,
     left_pressed |-> raw.left /\ ~prev.left,
     right_pressed |-> raw.right /\ ~prev.right,
     a_pressed |-> raw.a /\ ~prev.a,
     b_pressed |-> raw.b /\ ~prev.b]

\* ------------------------------------------------------------- the game
HandlerName(btn) ==
    CASE btn = "up" -> "on_up_pressed" [] btn = "down" -> "on_down_pressed"
      [] btn = "left" -> "on_left_pressed" [] btn = "right" -> "on_right_pressed"
      [] btn = "a" -> "on_a_pressed" [] btn = "b" -> "on_b_pressed"

\* a GameBase subclass (BlackjackGame): every optional hook is present
FullGame == {HandlerName(btn) : btn \in ButtonSet} \cup {"reset", "should_redraw"}
\* a duck-typed game with update and draw only
BareGame == {}
\* a duck-typed game that handles left and b only, and can be reset
PartialGame == {"on_left_pressed", "on_b_pressed", "reset"}

\* ----------------------------------------------------------- Engine.run
\* a mutant: the double-tap check is made before the handlers are dispatched
step_after_gesture_first ==
    [input |-> "gesture", gesture |-> "dispatch", dispatch |-> "update",
     update |-> "draw", draw |-> "pace", pace |-> "loop"]

\* the body of the while loop: the step that follows each step of a tick when
\* nothing cuts the tick short
step_after ==
    [input |-> "dispatch", dispatch |-> "gesture", gesture |-> "update",
     update |-> "draw", draw |-> "pace", pace |-> "loop"]

\* run(): self._running = True; last_time = ticks_ms(); first_frame = True
Run ==
    /\ pc \in {"idle", "done"}
    /\ running' = TRUE
    /\ last_time' = ticks_ms
    /\ first_frame' = TRUE
    /\ pc' = "loop"
    /\ run_start' = tick
    /\ UNCHANGED <<current_input, prev_input, last_up_press_time, now, dt_ms>>
    /\ UNCHANGED env_vars
    /\ UNCHANGED <<tick, calls, fired, cand_real, up_outcomes, last_fire_tick, raws, up_trace, hook, failure, slept>>
    /\ UNCHANGED gfx_vars
    /\ UNCHANGED <<bj, bj_obs>>

\* while self._running: now = ticks_ms(); dt_ms = ticks_diff(now, last_time); last_time = now
BeginTick(limit) ==
    /\ pc = "loop"
    /\ running
    /\ tick < limit
    /\ now' = ticks_ms
    /\ dt_ms' = ticks_diff(ticks_ms, last_time)
    /\ last_time' = ticks_ms
    /\ pc' = "input"
    /\ tick' = tick + 1
    /\ calls' = <<>>
    /\ fired' = FALSE
    /\ hook' = "none"
    /\ slept' = None
    /\ UNCHANGED <<running, current_input, prev_input, last_up_press_time, first_frame>>
    /\ UNCHANGED env_vars
    /\ UNCHANGED <<cand_real, up_outcomes, last_fire_tick, raws, up_trace, run_start, failure>>
    /\ UNCHANGED gfx_vars
    /\ UNCHANGED <<bj, bj_obs>>

\* the loop condition is false: run() returns
ExitLoop ==
    /\ pc = "loop"
    /\ ~running
    /\ pc' = "done"
    /\ UNCHANGED <<running, current_input, prev_input, last_up_press_time,
                   now, last_time, dt_ms, first_frame>>
    /\ UNCHANGED env_vars
    /\ UNCHANGED obs_vars
    /\ UNCHANGED gfx_vars
    /\ UNCHANGED <<bj, bj_obs>>

\* self._update_input(), the provider returning raw
UpdateInput(raw, rec) ==
    /\ pc = "input"
    /\ current_input' = update_input(current_input, raw)
    /\ prev_input' = current_input
    /\ pc' = step_after.input
    /\ raws' = <<raws[2], Held(raw)>>
    /\ up_trace' = IF rec THEN Append(up_trace, <<raw.up, current_input'.up_pressed>>)
                   ELSE up_trace
    /\ UNCHANGED <<running, last_up_press_time, now, last_time, dt_ms, first_frame>>
    /\ UNCHANGED env_vars
    /\ UNCHANGED <<tick, calls, fired, cand_real, up_outcomes, last_fire_tick, run_start, hook, failure, slept>>
    /\ UNCHANGED gfx_vars
    /\ UNCHANGED <<bj, bj_obs>>

\* a mutant: down is tested before up
dispatched_down_first(s, g) ==
    SelectSeq(<<"on_down_pressed", "on_up_pressed", "on_left_pressed",
                "on_right_pressed", "on_a_pressed", "on_b_pressed">>,
              LAMBDA h : h \in g /\ \E btn \in ButtonSet :
                             HandlerName(btn) = h /\ Pressed(s, btn))

\* a mutant: an up press is left to the double-tap check, its handler not invoked
dispatched_without_up(s, g) ==
    SelectSeq(<<"on_down_pressed", "on_left_pressed", "on_right_pressed",
                "on_a_pressed", "on_b_pressed">>,
              LAMBDA h : h \in g /\ \E btn \in ButtonSet :
                             HandlerName(btn) = h /\ Pressed(s, btn))

\* the handlers _dispatch_input_events invokes, in the order of its six tests
dispatched(s, g) ==
    SelectSeq([i \in 1..Len(Buttons) |-> HandlerName(Buttons[i])],
              LAMBDA h : h \in g /\ \E btn \in ButtonSet :
                             HandlerName(btn) = h /\ Pressed(s, btn))

\* self._dispatch_input_events(game); rq: an invoked handler calls
\* request_redraw, stop: an invoked handler calls engine.stop()
DispatchInputEvents(rq, stop) ==
    /\ pc = "dispatch"
    /\ calls' = calls \o dispatched(current_input, game)
    /\ needs_redraw' = IF rq /\ dispatched(current_input, game) # <<>>
                       THEN TRUE ELSE needs_redraw
    /\ running' = IF stop /\ dispatched(current_input, game) # <<>>
                  THEN FALSE ELSE running
    /\ pc' = step_after.dispatch
    /\ UNCHANGED <<current_input, prev_input, last_up_press_time,
                   now, last_time, dt_ms, first_frame>>
    /\ UNCHANGED <<clock, game>>
    /\ UNCHANGED <<tick, fired, cand_real, up_outcomes, last_fire_tick, raws, up_trace, run_start, hook, failure, slept>>
    /\ UNCHANGED gfx_vars
    /\ UNCHANGED <<bj, bj_obs>>

\* a mutant: the candidate is kept when the double-tap fires
gesture_candidate_kept(s, cand, t) ==
    IF s.up_pressed
    THEN IF cand # None
         THEN IF ticks_diff(t, cand) <= double_tap_threshold_ms
              THEN [fire |-> TRUE, cand |-> cand]
              ELSE [fire |-> FALSE, cand |-> t]
         ELSE [fire |-> FALSE, cand |-> t]
    ELSE [fire |-> FALSE, cand |-> cand]

\* a mutant: the threshold is exclusive
gesture_exclusive(s, cand, t) ==
    IF s.up_pressed
    THEN IF cand # None
         THEN IF ticks_diff(t, cand) < double_tap_threshold_ms
              THEN [fire |-> TRUE, cand |-> None]
              ELSE [fire |-> FALSE, cand |-> t]
         ELSE [fire |-> FALSE, cand |-> t]
    ELSE [fire |-> FALSE, cand |-> cand]

\* the double-tap test of run(): whether it fires, and the candidate it leaves,
\* from the current input s, the stored candidate cand and this tick's now = t
gesture(s, cand, t) ==
    IF s.up_pressed
    THEN IF cand # None
         THEN IF ticks_diff(t, cand) <= double_tap_threshold_ms
              THEN [fire |-> TRUE, cand |-> None]
              ELSE [fire |-> FALSE, cand |-> t]
         ELSE [fire |-> FALSE, cand |-> t]
    ELSE [fire |-> FALSE, cand |-> cand]

\* no candidate is stored
NoCand == [clock |-> None, tick |-> None]

\* the latest three outcomes of up presses
Latest(seq) == IF Len(seq) > 3 THEN SubSeq(seq, Len(seq) - 2, Len(seq)) ELSE seq

\* a mutant: the tick goes on to update and draw after the reset
after_fire_falls_through == "update"

\* where run() goes after a double-tap fired: continue
after_fire == "loop"

\* run(): detect double-tap on UP; on a double-tap reset the game and continue
GestureCheck ==
    /\ pc = "gesture"
    /\ LET g == gesture(current_input, last_up_press_time, now) IN
        /\ last_up_press_time' = g.cand
        /\ fired' = g.fire
        /\ calls' = IF g.fire /\ "reset" \in game THEN Append(calls, "reset") ELSE calls
        \* BlackjackGame.reset -> _reset_round -> request_redraw; GameBase.reset -> __init__
        /\ needs_redraw' = IF g.fire /\ "reset" \in game THEN TRUE ELSE needs_redraw
        /\ pc' = IF g.fire THEN after_fire ELSE step_after.gesture
        /\ cand_real' = IF ~current_input.up_pressed THEN cand_real
                        ELSE IF g.fire THEN NoCand
                        ELSE [clock |-> clock, tick |-> tick]
        /\ up_outcomes' = IF ~current_input.up_pressed THEN up_outcomes
                          ELSE Latest(Append(up_outcomes,
                                             IF g.fire THEN "fire" ELSE "cand"))
        /\ last_fire_tick' = IF g.fire THEN tick ELSE last_fire_tick
    /\ UNCHANGED <<running, current_input, prev_input, now, last_time, dt_ms, first_frame>>
    /\ UNCHANGED <<clock, game>>
    /\ UNCHANGED <<tick, raws, up_trace, run_start, hook, failure, slept>>
    /\ UNCHANGED gfx_vars
    /\ UNCHANGED <<bj, bj_obs>>

\* a mutant: engine.stop() ends run() at once, in the middle of the tick
GameUpdate_stop_interrupts(rq, stop) ==
    /\ pc = "update"
    /\ calls' = Append(calls, "update")
    /\ needs_redraw' = IF rq THEN TRUE ELSE needs_redraw
    /\ running' = IF stop THEN FALSE ELSE running
    /\ pc' = IF stop THEN "done" ELSE step_after.update
    /\ UNCHANGED <<current_input, prev_input, last_up_press_time,
                   now, last_time, dt_ms, first_frame>>
    /\ UNCHANGED <<clock, game>>
    /\ UNCHANGED <<tick, fired, cand_real, up_outcomes, last_fire_tick, raws, up_trace, run_start, hook, failure, slept>>
    /\ UNCHANGED gfx_vars
    /\ UNCHANGED <<bj, bj_obs>>

\* a mutant: update withdraws the request for a redraw
GameUpdate_drops_request(rq, stop) ==
    /\ pc = "update"
    /\ calls' = Append(calls, "update")
    /\ needs_redraw' = FALSE
    /\ running' = IF stop THEN FALSE ELSE running
    /\ pc' = step_after.update
    /\ UNCHANGED <<current_input, prev_input, last_up_press_time,
                   now, last_time, dt_ms, first_frame>>
    /\ UNCHANGED <<clock, game>>
    /\ UNCHANGED <<tick, fired, cand_real, up_outcomes, last_fire_tick, raws, up_trace, run_start, hook, failure, slept>>
    /\ UNCHANGED gfx_vars
    /\ UNCHANGED <<bj, bj_obs>>

\* game.update(dt, self._current_input); rq: it calls request_redraw,
\* stop: it calls engine.stop()
GameUpdate(rq, stop) ==
    /\ pc = "update"
    /\ calls' = Append(calls, "update")
    /\ needs_redraw' = IF rq THEN TRUE ELSE needs_redraw
    /\ running' = IF stop THEN FALSE ELSE running
    /\ pc' = step_after.update
    /\ UNCHANGED <<current_input, prev_input, last_up_press_time,
                   now, last_time, dt_ms, first_frame>>
    /\ UNCHANGED <<clock, game>>
    /\ UNCHANGED <<tick, fired, cand_real, up_outcomes, last_fire_tick, raws, up_trace, run_start, hook, failure, slept>>
    /\ UNCHANGED gfx_vars
    /\ UNCHANGED <<bj, bj_obs>>

\* a mutant: the first frame is not forced
should_draw_hook_only == IF "should_redraw" \in game THEN needs_redraw ELSE TRUE

\* should_draw of run()
should_draw == IF "should_redraw" \in game THEN needs_redraw \/ first_frame ELSE TRUE

\* run(): draw only if needed; first_frame = False
Draw ==
    /\ pc = "draw"
    /\ calls' = IF should_draw THEN calls \o <<"draw", "present">> ELSE calls
    \* BlackjackGame.draw ends with self.needs_redraw = False
    /\ needs_redraw' = IF should_draw THEN FALSE ELSE needs_redraw
    /\ first_frame' = FALSE
    /\ hook' = IF "should_redraw" \notin game THEN "none"
               ELSE IF needs_redraw THEN "true" ELSE "false"
    /\ pc' = step_after.draw
    /\ UNCHANGED <<running, current_input, prev_input, last_up_press_time,
                   now, last_time, dt_ms>>
    /\ UNCHANGED <<clock, game>>
    /\ UNCHANGED <<tick, fired, cand_real, up_outcomes, last_fire_tick, raws, up_trace, run_start, failure, slept>>
    /\ UNCHANGED gfx_vars
    /\ UNCHANGED <<bj, bj_obs>>

\* a mutant: a failure of update is swallowed and the tick goes on
UpdateRaises_swallowed ==
    /\ pc = "update"
    /\ calls' = Append(calls, "update")
    /\ failure' = "update"
    /\ pc' = step_after.update
    /\ UNCHANGED engine_vars_but_pc
    /\ UNCHANGED env_vars
    /\ UNCHANGED <<tick, fired, cand_real, up_outcomes, last_fire_tick, raws, up_trace, run_start, hook, slept>>
    /\ UNCHANGED gfx_vars
    /\ UNCHANGED <<bj, bj_obs>>

\* game.update(...) raises: nothing in run() catches it, run() is left at once
UpdateRaises ==
    /\ pc = "update"
    /\ calls' = Append(calls, "update")
    /\ failure' = "update"
    /\ pc' = "raised"
    /\ UNCHANGED engine_vars_but_pc
    /\ UNCHANGED env_vars
    /\ UNCHANGED <<tick, fired, cand_real, up_outcomes, last_fire_tick, raws, up_trace, run_start, hook, slept>>
    /\ UNCHANGED gfx_vars
    /\ UNCHANGED <<bj, bj_obs>>

\* game.draw(self.gfx) raises: present, first_frame = False and the frame
\* limiting are never reached
DrawRaises ==
    /\ pc = "draw"
    /\ should_draw
    /\ calls' = Append(calls, "draw")
    /\ hook' = IF "should_redraw" \notin game THEN "none"
               ELSE IF needs_redraw THEN "true" ELSE "false"
    /\ failure' = "draw"
    /\ pc' = "raised"
    /\ UNCHANGED engine_vars_but_pc
    /\ UNCHANGED env_vars
    /\ UNCHANGED <<tick, fired, cand_real, up_outcomes, last_fire_tick, raws, up_trace, run_start, slept>>
    /\ UNCHANGED gfx_vars
    /\ UNCHANGED <<bj, bj_obs>>

\* a mutant: every tick sleeps a whole frame time, however long its work took
Pace_full_frame(w) ==
    /\ pc = "pace"
    /\ clock' = clock + w + frame_ms
    /\ calls' = Append(calls, "sleep_ms")
    /\ slept' = frame_ms
    /\ pc' = step_after.pace
    /\ UNCHANGED engine_vars_but_pc
    /\ UNCHANGED <<game, needs_redraw>>
    /\ UNCHANGED <<tick, fired, cand_real, up_outcomes, last_fire_tick, raws, up_trace, run_start, hook, failure>>
    /\ UNCHANGED gfx_vars
    /\ UNCHANGED <<bj, bj_obs>>

\* run(): frame limiting, the tick's work having taken w ms since now was read
Pace(w) ==
    /\ pc = "pace"
    /\ LET elapsed_ms == ticks_diff((clock + w) % TICKS_PERIOD, now)
           spare == frame_ms - elapsed_ms
       IN  IF spare > 0
           THEN /\ clock' = clock + w + spare
                /\ calls' = Append(calls, "sleep_ms")
                /\ slept' = spare
           ELSE /\ clock' = clock + w
                /\ calls' = calls
                /\ slept' = None
    /\ pc' = step_after.pace
    /\ UNCHANGED engine_vars_but_pc
    /\ UNCHANGED <<game, needs_redraw>>
    /\ UNCHANGED <<tick, fired, cand_real, up_outcomes, last_fire_tick, raws, up_trace, run_start, hook, failure>>
    /\ UNCHANGED gfx_vars
    /\ UNCHANGED <<bj, bj_obs>>

\* ======================================================= the display
\* ILI9341.__init__ defaults: width=240, height=320
width == 240
height == 320

\* the bytes (v >> 8) & 0xFF and v & 0xFF of a Python int
hi_byte(v) == (v \div 256) % 256
lo_byte(v) == v % 256

\* events on the pins and the SPI bus
PinEvent(pin, v) == [op |-> pin, val |-> v, data |-> <<>>]
WriteEvent(bytes) == [op |-> "write", val |-> 0, data |-> bytes]

\* ILI9341._write_cmd
write_cmd(cmd) ==
    <<PinEvent("dc", 0), PinEvent("cs", 0), WriteEvent(<<cmd>>), PinEvent("cs", 1)>>

\* ILI9341._write_data
write_data(data_bytes) ==
    <<PinEvent("dc", 1), PinEvent("cs", 0), WriteEvent(data_bytes), PinEvent("cs", 1)>>

\* time.sleep_ms(ms) inside the driver
SleepEvent(ms) == [op |-> "sleep", val |-> ms, data |-> <<>>]

\* a mutant: the reset line is pulsed without being held
tft_reset_not_held == <<PinEvent("rst", 0), PinEvent("rst", 1)>>

\* ILI9341._reset
tft_reset ==
    <<PinEvent("rst", 0), SleepEvent(50), PinEvent("rst", 1), SleepEvent(50)>>

\* ILI9341._init_display
init_display ==
    tft_reset
    \o write_cmd(1) \o <<SleepEvent(50)>>
    \o write_cmd(207) \o write_data(<<0, 193, 48>>)
    \o write_cmd(237) \o write_data(<<100, 3, 18, 129>>)
    \o write_cmd(232) \o write_data(<<133, 0, 120>>)
    \o write_cmd(203) \o write_data(<<57, 44, 0, 52, 2>>)
    \o write_cmd(247) \o write_data(<<32>>)
    \o write_cmd(234) \o write_data(<<0, 0>>)
    \o write_cmd(192) \o write_data(<<35>>)
    \o write_cmd(193) \o write_data(<<16>>)
    \o write_cmd(197) \o write_data(<<62, 40>>)
    \o write_cmd(54) \o write_data(<<72>>)
    \o write_cmd(58) \o write_data(<<85>>)
    \o write_cmd(177) \o write_data(<<0, 24>>)
    \o write_cmd(182) \o write_data(<<8, 130, 39>>)
    \o write_cmd(242) \o write_data(<<0>>)
    \o write_cmd(38) \o write_data(<<1>>)
    \o write_cmd(225)
    \o write_data(<<0, 14, 20, 3, 17, 7, 49, 193, 72, 8, 15, 12, 49, 54, 15>>)
    \o write_cmd(17) \o <<SleepEvent(120)>>
    \o write_cmd(41) \o <<SleepEvent(20)>>

\* a mutant: the bounds are sent low byte first
set_window_little_endian(x0, y0, x1, y1) ==
    write_cmd(42)
    \o write_data(<<lo_byte(x0), hi_byte(x0), lo_byte(x1), hi_byte(x1)>>)
    \o write_cmd(43)
    \o write_data(<<lo_byte(y0), hi_byte(y0), lo_byte(y1), hi_byte(y1)>>)
    \o write_cmd(44)

\* ILI9341._set_window: column address set, row address set, write to RAM
set_window(x0, y0, x1, y1) ==
    write_cmd(42)
    \o write_data(<<hi_byte(x0), lo_byte(x0), hi_byte(x1), lo_byte(x1)>>)
    \o write_cmd(43)
    \o write_data(<<hi_byte(y0), lo_byte(y0), hi_byte(y1), lo_byte(y1)>>)
    \o write_cmd(44)

\* ILI9341._set_window_for_read: the same addressing, then read from RAM
set_window_for_read(x0, y0, x1, y1) ==
    write_cmd(42)
    \o write_data(<<hi_byte(x0), lo_byte(x0), hi_byte(x1), lo_byte(x1)>>)
    \o write_cmd(43)
    \o write_data(<<hi_byte(y0), lo_byte(y0), hi_byte(y1), lo_byte(y1)>>)
    \o write_cmd(46)

\* bytes([hi, lo]) * n
Repeat2(hi, lo, n) == [i \in 1..(2 * n) |-> IF i % 2 = 1 THEN hi ELSE lo]

\* the while loop of fill_rect: round k starts with pixels - 64 * (k - 1) pixels
\* to send (every earlier round sent 64), sends n of them in one spi.write of
\* chunk[:n * 2], and the loop ends with the round that leaves none
fill_writes(pixels, chunk) ==
    [k \in 1..((pixels + 63) \div 64) |->
        LET left == pixels - 64 * (k - 1)
            n == IF left < 64 THEN left ELSE 64
        IN  WriteEvent(SubSeq(chunk, 1, n * 2))]

\* a mutant: the end of the rectangle is taken as exclusive, x1 = x + w, y1 = y + h
fill_rect_exclusive_end(x, y, w, h, colour) ==
    IF w <= 0 \/ h <= 0 THEN <<>>
    ELSE LET x1 == x + w
             y1 == y + h
         IN  IF x < 0 \/ y < 0 \/ x1 > width \/ y1 > height THEN <<>>
             ELSE set_window(x, y, x1, y1)
                  \o <<PinEvent("dc", 1), PinEvent("cs", 0)>>
                  \o fill_writes(w * h, Repeat2(hi_byte(colour), lo_byte(colour), 64))
                  \o <<PinEvent("cs", 1)>>

\* a mutant: the colour is sent low byte first
fill_rect_low_first(x, y, w, h, colour) ==
    IF w <= 0 \/ h <= 0 THEN <<>>
    ELSE LET x1 == x + w - 1
             y1 == y + h - 1
         IN  IF x < 0 \/ y < 0 \/ x1 >= width \/ y1 >= height THEN <<>>
             ELSE set_window(x, y, x1, y1)
                  \o <<PinEvent("dc", 1), PinEvent("cs", 0)>>
                  \o fill_writes(w * h, Repeat2(lo_byte(colour), hi_byte(colour), 64))
                  \o <<PinEvent("cs", 1)>>

\* a mutant: the pixel stream is sent without raising the command/data line
fill_rect_dc_left_low(x, y, w, h, colour) ==
    IF w <= 0 \/ h <= 0 THEN <<>>
    ELSE LET x1 == x + w - 1
             y1 == y + h - 1
         IN  IF x < 0 \/ y < 0 \/ x1 >= width \/ y1 >= height THEN <<>>
             ELSE set_window(x, y, x1, y1)
                  \o <<PinEvent("cs", 0)>>
                  \o fill_writes(w * h, Repeat2(hi_byte(colour), lo_byte(colour), 64))
                  \o <<PinEvent("cs", 1)>>

\* ILI9341.fill_rect: the bus events it causes
fill_rect(x, y, w, h, colour) ==
    IF w <= 0 \/ h <= 0 THEN <<>>
    ELSE LET x1 == x + w - 1
             y1 == y + h - 1
         IN  IF x < 0 \/ y < 0 \/ x1 >= width \/ y1 >= height THEN <<>>
             ELSE set_window(x, y, x1, y1)
                  \o <<PinEvent("dc", 1), PinEvent("cs", 0)>>
                  \o fill_writes(w * h, Repeat2(hi_byte(colour), lo_byte(colour), 64))
                  \o <<PinEvent("cs", 1)>>

Max2(m, n) == IF m >= n THEN m ELSE n
Min2(m, n) == IF m <= n THEN m ELSE n

\* a mutant: the left and top edges are not clamped
safe_fill_rect_no_low_clamp(x, y, w, h, colour) ==
    IF w <= 0 \/ h <= 0 THEN <<>>
    ELSE LET x0 == x
             y0 == y
             x1 == Min2(width, x + w)
             y1 == Min2(height, y + h)
             cw == x1 - x0
             ch == y1 - y0
         IN  IF cw <= 0 \/ ch <= 0 THEN <<>>
             ELSE fill_rect(x0, y0, cw, ch, colour)

\* PicoGFX.safe_fill_rect: the bus events it causes
safe_fill_rect(x, y, w, h, colour) ==
    IF w <= 0 \/ h <= 0 THEN <<>>
    ELSE LET x0 == Max2(0, x)
             y0 == Max2(0, y)
             x1 == Min2(width, x + w)
             y1 == Min2(height, y + h)
             cw == x1 - x0
             ch == y1 - y0
         IN  IF cw <= 0 \/ ch <= 0 THEN <<>>
             ELSE fill_rect(x0, y0, cw, ch, colour)

\* the record of a drawing call
NoText == <<>>
Call(op, x, y, w, h, colour) ==
    [op |-> op, x |-> x, y |-> y, w |-> w, h |-> h, colour |-> colour,
     text |-> NoText, bg |-> None, scale |-> 0]

\* gfx.safe_fill_rect(x, y, w, h, colour)
SafeFillRect(x, y, w, h, colour) ==
    /\ bus' = safe_fill_rect(x, y, w, h, colour)
    /\ call' = Call("safe_fill_rect", x, y, w, h, colour)
    /\ ret' = <<>>
    /\ allocs' = <<>>
    /\ UNCHANGED <<text_cache, renders>>
    /\ UNCHANGED <<engine_vars, env_vars, obs_vars, bj, bj_obs>>

\* gfx.fill_rect(x, y, w, h, colour) -> tft.fill_rect
FillRect(x, y, w, h, colour) ==
    /\ bus' = fill_rect(x, y, w, h, colour)
    /\ call' = Call("fill_rect", x, y, w, h, colour)
    /\ ret' = <<>>
    /\ allocs' = <<>>
    /\ UNCHANGED <<text_cache, renders>>
    /\ UNCHANGED <<engine_vars, env_vars, obs_vars, bj, bj_obs>>

\* gfx.clear(colour) -> tft.clear -> fill_rect(0, 0, width, height, colour)
Clear(colour) ==
    /\ bus' = fill_rect(0, 0, width, height, colour)
    /\ call' = Call("clear", 0, 0, width, height, colour)
    /\ ret' = <<>>
    /\ allocs' = <<>>
    /\ UNCHANGED <<text_cache, renders>>
    /\ UNCHANGED <<engine_vars, env_vars, obs_vars, bj, bj_obs>>

\* PicoGFX.__init__: an empty text cache; nothing drawn yet
InitGfx ==
    /\ text_cache = <<>>
    /\ bus = <<>>
    /\ call = Call("none", 0, 0, 0, 0, 0)
    /\ ret = <<>>
    /\ allocs = <<>>
    /\ renders = <<>>

\* ------------------------------------------------------------ text
\* A text is the sequence of its character codes.

\* The 8x8 font of framebuf is firmware data: whether the pixel at (col, row) of
\* the cell of character ch is lit.  Any fixed bitmap per character serves; this
\* one lights a different pattern for every code.
Glyph(ch, col, row) == (ch + 3 * col + 5 * row) % 3 = 0

\* the loop that fills a buffer of n bytes with the background, high byte first
bg_filled(n, hi_bg, lo_bg) == [i \in 1..n |-> IF i % 2 = 1 THEN hi_bg ELSE lo_bg]

\* fb.text(text, 0, 0, colour) on an RGB565 frame buffer w pixels wide over buf:
\* every lit pixel of every character cell is stored as the 16-bit colour in the
\* byte order of the machine, low byte first
fb_text(buf, w, text, colour) ==
    [i \in 1..Len(buf) |->
        LET p == (i - 1) \div 2
            px == p % w
            py == p \div w
        IN  IF Glyph(text[px \div 8 + 1], px % 8, py)
            THEN IF i % 2 = 1 THEN lo_byte(colour) ELSE hi_byte(colour)
            ELSE buf[i]]

\* ILI9341.blit_rgb565
blit_rgb565(x, y, w, h, buf) ==
    set_window(x, y, x + w - 1, y + h - 1) \o write_data(buf)

\* ILI9341.text
tft_text(x, y, text, colour, bg) ==
    IF text = <<>> THEN <<>>
    ELSE LET w == 8 * Len(text)
             h == 8
             buf == bg_filled(w * h * 2, hi_byte(bg), lo_byte(bg))
         IN  blit_rgb565(x, y, w, h, fb_text(buf, w, text, colour))

\* ILI9341.text: the bytearray it allocates
tft_text_bufs(text) == IF text = <<>> THEN <<>> ELSE <<8 * Len(text) * 8 * 2>>

\* ILI9341.__init__ -> _init_display
InitDisplay ==
    /\ bus' = init_display
    /\ call' = Call("init_display", 0, 0, 0, 0, 0)
    /\ ret' = <<>>
    /\ allocs' = <<>>
    /\ UNCHANGED <<text_cache, renders>>
    /\ UNCHANGED <<engine_vars, env_vars, obs_vars, bj, bj_obs>>

\* tft._set_window(x0, y0, x1, y1)
SetWindow(x0, y0, x1, y1) ==
    /\ bus' = set_window(x0, y0, x1, y1)
    /\ call' = Call("set_window", x0, y0, x1 - x0 + 1, y1 - y0 + 1, 0)
    /\ ret' = <<>>
    /\ allocs' = <<>>
    /\ UNCHANGED <<text_cache, renders>>
    /\ UNCHANGED <<engine_vars, env_vars, obs_vars, bj, bj_obs>>

\* tft._set_window_for_read(x0, y0, x1, y1)
SetWindowForRead(x0, y0, x1, y1) ==
    /\ bus' = set_window_for_read(x0, y0, x1, y1)
    /\ call' = Call("set_window_for_read", x0, y0, x1 - x0 + 1, y1 - y0 + 1, 0)
    /\ ret' = <<>>
    /\ allocs' = <<>>
    /\ UNCHANGED <<text_cache, renders>>
    /\ UNCHANGED <<engine_vars, env_vars, obs_vars, bj, bj_obs>>

\* gfx.draw_image_rgb565(x, y, w, h, buf) -> tft.blit_rgb565
DrawImage(x, y, w, h, buf) ==
    /\ bus' = blit_rgb565(x, y, w, h, buf)
    /\ call' = Call("draw_image_rgb565", x, y, w, h, 0)
    /\ ret' = <<>>
    /\ allocs' = <<>>
    /\ UNCHANGED <<text_cache, renders>>
    /\ UNCHANGED <<engine_vars, env_vars, obs_vars, bj, bj_obs>>

\* a mutant: a scale below 1 is used as it is
get_text_size_unclamped(text, scale) ==
    <<8 * Len(text) * scale, 8 * scale>>

\* PicoGFX.get_text_size
get_text_size(text, scale) ==
    LET s == IF scale < 1 THEN 1 ELSE scale
        base_w == 8 * Len(text)
        base_h == 8
    IN  <<base_w * s, base_h * s>>

\* step 1 of _render_text_sprite: the text at 1x in a buffer of its own
small_buf(text, colour, bg) ==
    LET base_w == 8 * Len(text)
        base_h == 8
        hi_bg == IF bg = None THEN 0 ELSE hi_byte(bg)
        lo_bg == IF bg = None THEN 0 ELSE lo_byte(bg)
    IN  fb_text(bg_filled(base_w * base_h * 2, hi_bg, lo_bg), base_w, text, colour)

Sprite(w, h, data) == [w |-> w, h |-> h, data |-> data, path |-> None]

\* a mutant: the source column is sx modulo the base width, the text tiled
\* instead of stretched
render_text_sprite_tiled(text, colour, bg, scale) ==
    LET s == IF scale < 1 THEN 1 ELSE scale
        base_w == 8 * Len(text)
        base_h == 8
        small == small_buf(text, colour, bg)
        out_w == base_w * s
        out_h == base_h * s
    IN  IF s = 1 THEN Sprite(base_w, base_h, small)
        ELSE Sprite(out_w, out_h,
                 [d \in 1..(out_w * out_h * 2) |->
                     LET sy == ((d - 1) \div 2) \div out_w
                         sx == ((d - 1) \div 2) % out_w
                         src_y == sy \div s
                         src_x == sx % base_w
                         src_index == 2 * (src_y * base_w + src_x)
                     IN  small[src_index + 1 + ((d - 1) % 2)]])

\* PicoGFX._render_text_sprite: the two loops over sy and sx give byte d of the
\* output, d - 1 = dst_index or dst_index + 1, from the byte of the 1x buffer at
\* src_index or src_index + 1
render_text_sprite(text, colour, bg, scale) ==
    LET s == IF scale < 1 THEN 1 ELSE scale
        base_w == 8 * Len(text)
        base_h == 8
        small == small_buf(text, colour, bg)
        out_w == base_w * s
        out_h == base_h * s
    IN  IF s = 1 THEN Sprite(base_w, base_h, small)
        ELSE Sprite(out_w, out_h,
                 [d \in 1..(out_w * out_h * 2) |->
                     LET sy == ((d - 1) \div 2) \div out_w
                         sx == ((d - 1) \div 2) % out_w
                         src_y == sy \div s
                         src_x == sx \div s
                         src_index == 2 * (src_y * base_w + src_x)
                     IN  small[src_index + 1 + ((d - 1) % 2)]])

\* PicoGFX._render_text_sprite: the bytearrays it allocates, small_buf and,
\* above scale 1, out_buf
render_text_sprite_bufs(text, scale) ==
    LET s == IF scale < 1 THEN 1 ELSE scale
        base_w == 8 * Len(text)
        base_h == 8
    IN  IF s = 1 THEN <<base_w * base_h * 2>>
        ELSE <<base_w * base_h * 2, (base_w * s) * (base_h * s) * 2>>

\* a mutant: the cache keeps the latest sprite only
get_text_sprite_latest_only(cache, text, colour, bg, scale) ==
    LET key == <<text, colour, bg, scale>>
    IN  IF key \in DOMAIN cache
        THEN [spr |-> cache[key], cache |-> cache, bufs |-> <<>>, rendered |-> <<>>]
        ELSE LET spr == render_text_sprite(text, colour, bg, scale)
             IN  [spr |-> spr, cache |-> (key :> spr),
                  bufs |-> render_text_sprite_bufs(text, scale), rendered |-> <<key>>]

\* a mutant: the cache is never consulted, every call rasterizes
get_text_sprite_no_lookup(cache, text, colour, bg, scale) ==
    LET key == <<text, colour, bg, scale>>
        spr == render_text_sprite(text, colour, bg, scale)
    IN  [spr |-> spr, cache |-> (key :> spr) @@ cache,
         bufs |-> render_text_sprite_bufs(text, scale), rendered |-> <<key>>]

\* PicoGFX._get_text_sprite: the sprite, the cache afterwards, the bytearrays
\* allocated and the key rasterized, if any
get_text_sprite(cache, text, colour, bg, scale) ==
    LET key == <<text, colour, bg, scale>>
    IN  IF key \in DOMAIN cache
        THEN [spr |-> cache[key], cache |-> cache, bufs |-> <<>>, rendered |-> <<>>]
        ELSE LET spr == render_text_sprite(text, colour, bg, scale)
             IN  [spr |-> spr, cache |-> (key :> spr) @@ cache,
                  bufs |-> render_text_sprite_bufs(text, scale), rendered |-> <<key>>]

\* PicoGFX.draw_sprite -> draw_image_rgb565 -> tft.blit_rgb565
draw_sprite(sprite, x, y) == blit_rgb565(x, y, sprite.w, sprite.h, sprite.data)

\* a mutant: there is no fast path, every text is drawn from a cached sprite
draw_text_always_cached(cache, x, y, text, colour, bg, scale) ==
    IF text = <<>> THEN [bus |-> <<>>, cache |-> cache, bufs |-> <<>>, rendered |-> <<>>]
    ELSE LET s == IF scale < 1 THEN 1 ELSE scale
             size == get_text_size(text, s)
             w == size[1]
             h == size[2]
             xa == IF x < 0 THEN 0 ELSE x
             ya == IF y < 0 THEN 0 ELSE y
             xb == IF xa + w > width THEN width - w ELSE xa
             yb == IF ya + h > height THEN height - h ELSE ya
             got == get_text_sprite(cache, text, colour, bg, s)
         IN  [bus |-> draw_sprite(got.spr, xb, yb), cache |-> got.cache,
              bufs |-> got.bufs, rendered |-> got.rendered]

\* PicoGFX.draw_text: the bus events it causes, the cache afterwards and the
\* bytearrays allocated on the way
draw_text(cache, x, y, text, colour, bg, scale) ==
    IF text = <<>> THEN [bus |-> <<>>, cache |-> cache, bufs |-> <<>>, rendered |-> <<>>]
    ELSE LET s == IF scale < 1 THEN 1 ELSE scale
             size == get_text_size(text, s)
             w == size[1]
             h == size[2]
             xa == IF x < 0 THEN 0 ELSE x
             ya == IF y < 0 THEN 0 ELSE y
             xb == IF xa + w > width THEN width - w ELSE xa
             yb == IF ya + h > height THEN height - h ELSE ya
         IN  IF s = 1 /\ bg = None
             THEN [bus |-> tft_text(xb, yb, text, colour, 0), cache |-> cache,
                   bufs |-> tft_text_bufs(text), rendered |-> <<>>]
             ELSE LET got == get_text_sprite(cache, text, colour, bg, s)
                  IN  [bus |-> draw_sprite(got.spr, xb, yb), cache |-> got.cache,
                       bufs |-> got.bufs, rendered |-> got.rendered]

CallText(op, x, y, text, colour, bg, scale) ==
    [Call(op, x, y, 0, 0, colour) EXCEPT !.text = text, !.bg = bg, !.scale = scale]

\* gfx.draw_text(x, y, text, colour, bg, scale)
DrawText(x, y, text, colour, bg, scale) ==
    /\ LET drawn == draw_text(text_cache, x, y, text, colour, bg, scale)
       IN  /\ bus' = drawn.bus /\ text_cache' = drawn.cache /\ allocs' = drawn.bufs
           /\ renders' = IF drawn.rendered = <<>> THEN renders
                         ELSE LET k == drawn.rendered[1]
                              IN  (k :> (IF k \in DOMAIN renders THEN renders[k] + 1 ELSE 1))
                                      @@ renders
    /\ call' = CallText("draw_text", x, y, text, colour, bg, scale)
    /\ ret' = <<>>
    /\ UNCHANGED <<engine_vars, env_vars, obs_vars, bj, bj_obs>>

\* gfx.get_text_size(text, scale)
GetTextSize(text, scale) ==
    /\ ret' = get_text_size(text, scale)
    /\ allocs' = <<>>
    /\ call' = CallText("get_text_size", 0, 0, text, 0, None, scale)
    /\ bus' = <<>>
    /\ UNCHANGED <<text_cache, renders>>
    /\ UNCHANGED <<engine_vars, env_vars, obs_vars, bj, bj_obs>>

\* gfx.make_text_sprite(text, color, bg, scale) -> _render_text_sprite
MakeTextSprite(text, colour, bg, scale) ==
    /\ ret' = render_text_sprite(text, colour, bg, scale)
    /\ allocs' = render_text_sprite_bufs(text, scale)
    /\ call' = CallText("make_text_sprite", 0, 0, text, colour, bg, scale)
    /\ bus' = <<>>
    /\ UNCHANGED <<text_cache, renders>>
    /\ UNCHANGED <<engine_vars, env_vars, obs_vars, bj, bj_obs>>

\* gfx.clear_caches()
ClearCaches ==
    /\ text_cache' = <<>>
    /\ renders' = <<>>
    /\ call' = Call("clear_caches", 0, 0, 0, 0, 0)
    /\ bus' = <<>>
    /\ ret' = <<>>
    /\ allocs' = <<>>
    /\ UNCHANGED <<engine_vars, env_vars, obs_vars, bj, bj_obs>>

\* The device left alone for a long time: IdleTicks consecutive ticks of run()
\* on which no button is held, every one a fast tick paced to frame_ms, the
\* game asking for nothing.  Together they last just over half the period of the
\* tick counter.  The state they leave is the one the tick actions above
\* would leave, taken IdleTicks times over.
IdleTicks == (TICKS_PERIOD \div 2) \div frame_ms + 1

IdleStretch ==
    /\ pc = "loop"
    /\ running
    /\ tick < MaxTicks
    /\ clock \div (TICKS_PERIOD \div 2) < MaxStretches
    /\ current_input' = InputState
    /\ prev_input' = InputState
    /\ now' = (clock + (IdleTicks - 1) * frame_ms) % TICKS_PERIOD
    /\ last_time' = now'
    /\ dt_ms' = frame_ms
    /\ first_frame' = FALSE
    /\ clock' = clock + IdleTicks * frame_ms
    /\ needs_redraw' = IF "should_redraw" \in game THEN FALSE ELSE needs_redraw
    /\ tick' = tick + 1
    /\ calls' = IF "should_redraw" \in game THEN <<"update", "sleep_ms">>
                ELSE <<"update", "draw", "present", "sleep_ms">>
    /\ fired' = FALSE
    /\ raws' = <<{}, {}>>
    /\ hook' = IF "should_redraw" \in game THEN "false" ELSE "none"
    \* the work of each of these ticks taking 10 ms
    /\ slept' = frame_ms - 10
    /\ UNCHANGED <<pc, running, last_up_press_time, game>>
    /\ UNCHANGED <<cand_real, up_outcomes, last_fire_tick, up_trace, run_start, failure>>
    /\ UNCHANGED gfx_vars
    /\ UNCHANGED <<bj, bj_obs>>

\* ===================================================== the Blackjack game
\* A card id "Suit_RANK" is the number 13 * suit + rank, suits and ranks counted
\* from 0 in the order of _build_deck: ranks 2..10, J, Q, K, ACE.
NumSuits == 4
NumRanks == 13

\* BlackjackGame._build_deck: for s in suits: for r in ranks: append
build_deck == [i \in 1..(NumSuits * NumRanks) |-> i - 1]

RankOf(cid) == cid % NumRanks

\* random.getrandbits(16): value n of the generator's output, the generator
\* being in one of the states of Seeds when the shuffle starts
getrandbits16(seed, n) == (seed * 31 * (n + 1) + n * n) % 65536

Swap(lst, a, b) == [lst EXCEPT ![a] = lst[b], ![b] = lst[a]]

\* mp_shuffle: for i in range(len(lst) - 1, 0, -1): j = getrandbits(16) % (i + 1);
\* swap lst[i] and lst[j] (positions counted from 0 in the code, from 1 here)
RECURSIVE shuffle_from(_, _, _)
shuffle_from(lst, i, seed) ==
    IF i < 1 THEN lst
    ELSE LET j == getrandbits16(seed, Len(lst) - 1 - i) % (i + 1)
         IN  shuffle_from(Swap(lst, i + 1, j + 1), i - 1, seed)

mp_shuffle(lst, seed) == shuffle_from(lst, Len(lst) - 1, seed)

\* BlackjackGame._draw_card_id: the card popped and the deck afterwards
draw_card_id(deck, seed) ==
    LET d == IF deck = <<>> THEN mp_shuffle(build_deck, seed) ELSE deck
    IN  [card |-> d[Len(d)], deck |-> SubSeq(d, 1, Len(d) - 1)]

\* the value of one card in _hand_value
CardValue(cid) ==
    IF RankOf(cid) = 12 THEN 11
    ELSE IF RankOf(cid) \in {9, 10, 11} THEN 10
    ELSE RankOf(cid) + 2

RECURSIVE SumValues(_)
SumValues(cards) ==
    IF cards = <<>> THEN 0 ELSE CardValue(Head(cards)) + SumValues(Tail(cards))

\* while total > 21 and aces > 0: total -= 10; aces -= 1
RECURSIVE soften(_, _)
soften(total, aces) ==
    IF total > 21 /\ aces > 0 THEN soften(total - 10, aces - 1) ELSE total

\* BlackjackGame._hand_value
hand_value(cards) ==
    soften(SumValues(cards), Cardinality({i \in 1..Len(cards) : RankOf(cards[i]) = 12}))

\* the status texts of the game, each the sequence of its character codes
\* "Blackjack demo"
TextBlackjackDemo ==
    <<66, 108, 97, 99, 107, 106, 97, 99, 107, 32, 100, 101, 109, 111>>
\* "Bust! You lose."
TextBust ==
    <<66, 117, 115, 116, 33, 32, 89,
      111, 117, 32, 108, 111, 115, 101, 46>>
\* "You hit!"
TextYouHit ==
    <<89, 111, 117, 32, 104, 105, 116, 33>>
\* "Dealer's turn..."
TextDealersTurn ==
    <<68, 101, 97, 108, 101, 114, 39, 115,
      32, 116, 117, 114, 110, 46, 46, 46>>
\* "Dealer wins!"
TextDealerWins ==
    <<68, 101, 97, 108, 101, 114, 32, 119, 105, 110, 115, 33>>
\* "Draw!"
TextDraw ==
    <<68, 114, 97, 119, 33>>
\* "Dealer busts! You win!"
TextDealerBusts ==
    <<68, 101, 97, 108, 101, 114, 32, 98, 117, 115, 116,
      115, 33, 32, 89, 111, 117, 32, 119, 105, 110, 33>>
\* "Dealer hits..."
TextDealerHits ==
    <<68, 101, 97, 108, 101, 114, 32, 104, 105, 116, 115, 46, 46, 46>>

\* BlackjackGame._reset_round on the object b: random.randint(1, 5) giving back,
\* the generator then being in state seed
reset_round(b, back, seed) ==
    LET shuffled == mp_shuffle(build_deck, seed)
        first == draw_card_id(shuffled, seed)
        second == draw_card_id(first.deck, seed)
    IN  [b EXCEPT !.state = "player_turn",
                  !.dealer_timer = 0,
                  !.player_final = 0,
                  !.dealer_back_sprite = back,
                  !.deck = second.deck,
                  !.player_cards = <<first.card>>,
                  !.dealer_cards = <<second.card>>,
                  !.status_text = TextBlackjackDemo]

\* BlackjackGame.__init__: no card sprite loaded, the static table not drawn,
\* the first round set up.  dealer_timer counts milliseconds (the code adds
\* dt = dt_ms / 1000.0 and compares with 2.0).
BlackjackGame(back, seed) ==
    reset_round([state |-> "none", dealer_timer |-> 0, player_final |-> 0,
                 dealer_back_sprite |-> 0, deck |-> <<>>, player_cards |-> <<>>,
                 dealer_cards |-> <<>>, status_text |-> <<>>,
                 card_sprites |-> {}, static_drawn |-> FALSE],
                back, seed)

\* ------------------------------------------------------ specifications
vars == <<engine_vars, env_vars, obs_vars, gfx_vars, bj, bj_obs>>

\* the state after Engine.__init__ and the game's construction, the game
\* object being one of objs
InitWith(games, objs) ==
    /\ pc = "idle"
    /\ running = TRUE
    /\ current_input = InputState
    /\ prev_input = InputState
    /\ last_up_press_time = None
    /\ now = 0
    /\ last_time = 0
    /\ dt_ms = 0
    /\ first_frame = TRUE
    /\ clock = 0
    /\ game \in games
    /\ needs_redraw = TRUE
    /\ tick = 0
    /\ calls = <<>>
    /\ fired = FALSE
    /\ cand_real = NoCand
    /\ up_outcomes = <<>>
    /\ raws = <<{}, {}>>
    /\ up_trace = <<>>
    /\ run_start = 0
    /\ hook = "none"
    /\ failure = "none"
    /\ slept = None
    /\ last_fire_tick = None
    /\ InitGfx
    /\ bj \in objs
    /\ bj_obs = [event |-> "init", acc |-> 0, steps |-> 0]

\* the state after Engine.__init__ and the game's construction
InitEngine(games) == InitWith(games, {BlackjackGame(1, 0)})

\* the work a tick may take, in ms: a fast tick (which then sleeps) and a slow one
WorkMs == {10, 200}

\* the snapshots the provider returns under Spec
UpRaws == {Snapshot({}), Snapshot({"up"}), Snapshot({"up", "left"})}

Init == InitEngine({FullGame, BareGame})

Next ==
    \/ Run
    \/ BeginTick(MaxTicks)
    \/ \E raw \in UpRaws : UpdateInput(raw, FALSE)
    \/ \E rq \in BOOLEAN, stop \in BOOLEAN : DispatchInputEvents(rq, stop)
    \/ GestureCheck
    \/ \E rq \in BOOLEAN, stop \in BOOLEAN : GameUpdate(rq, stop)
    \/ Draw
    \/ \E w \in WorkMs : Pace(w)
    \/ ExitLoop
    \/ IdleStretch
    \/ UpdateRaises
    \/ DrawRaises

Spec == Init /\ [][Next]_vars

\* ---- the engine driven by all six buttons, the up history recorded
InputRaws ==
    {Snapshot(S) : S \in {{}, {"up"}, {"down"}, {"left"}, {"right"}, {"a"}, {"b"},
                          {"up", "left"}, {"a", "b"}, ButtonSet}}

\* a fast tick, and one that makes three ticks last 200 ms
InputWorkMs == {10, 134}

InitInput == InitEngine({FullGame, PartialGame})

NextInput ==
    \/ Run
    \/ BeginTick(MaxInputTicks)
    \/ \E raw \in InputRaws : UpdateInput(raw, TRUE)
    \/ DispatchInputEvents(FALSE, FALSE)
    \/ GestureCheck
    \/ GameUpdate(FALSE, FALSE)
    \/ Draw
    \/ \E w \in InputWorkMs : Pace(w)

SpecInput == InitInput /\ [][NextInput]_vars

\* ---- the engine driven by the up button alone, long enough for two double-taps
MaxTapTicks == 8

TapRaws == {Snapshot({}), Snapshot({"up"})}

InitTap == InitEngine({FullGame, PartialGame})

NextTap ==
    \/ Run
    \/ BeginTick(MaxTapTicks)
    \/ \E raw \in TapRaws : UpdateInput(raw, FALSE)
    \/ \E stop \in BOOLEAN : DispatchInputEvents(FALSE, stop)
    \/ GestureCheck
    \/ GameUpdate(FALSE, FALSE)
    \/ Draw
    \/ \E w \in WorkMs : Pace(w)
    \/ ExitLoop

SpecTap == InitTap /\ [][NextTap]_vars

\* --------------------------------------- what the display controller sees
\* the level of a pin when event i of b happens (the pins start high for cs, low for dc)
PinLevel(b, pin, i, start) ==
    LET before == {j \in 1..(i - 1) : b[j].op = pin}
    IN  IF before = {} THEN start
        ELSE b[CHOOSE j \in before : \A k \in before : k <= j].val

\* the SPI transactions of b in order, each with the dc and cs levels it was sent under
Transactions(b) ==
    LET ws == SelectSeq([i \in 1..Len(b) |-> i], LAMBDA i : b[i].op = "write")
    IN  [k \in 1..Len(ws) |->
            [dc |-> PinLevel(b, "dc", ws[k], 0), cs |-> PinLevel(b, "cs", ws[k], 1),
             data |-> b[ws[k]].data]]

IsCmd(t, c) == t.dc = 0 /\ t.data = <<c>>

\* the positions in t of the memory-write commands (0x2C)
RamWrites(t) == {k \in 1..Len(t) : IsCmd(t[k], 44)}

\* a memory write at k is addressed: it follows column-address-set (0x2A) with
\* four parameter bytes and row-address-set (0x2B) with four parameter bytes
Addressed(t, k) ==
    /\ k >= 5
    /\ IsCmd(t[k - 4], 42) /\ t[k - 3].dc = 1 /\ Len(t[k - 3].data) = 4
    /\ IsCmd(t[k - 2], 43) /\ t[k - 1].dc = 1 /\ Len(t[k - 1].data) = 4

\* the window the controller has latched at the memory write at k: each bound is
\* the 16-bit big-endian number of its two parameter bytes
WindowAt(t, k) ==
    [x0 |-> t[k - 3].data[1] * 256 + t[k - 3].data[2],
     x1 |-> t[k - 3].data[3] * 256 + t[k - 3].data[4],
     y0 |-> t[k - 1].data[1] * 256 + t[k - 1].data[2],
     y1 |-> t[k - 1].data[3] * 256 + t[k - 1].data[4]]

Windows(b) == LET t == Transactions(b) IN {WindowAt(t, k) : k \in RamWrites(t)}

\* the bytes of transactions from..to of t, joined
RECURSIVE Joined(_, _, _)
Joined(t, from, to) ==
    IF from > to THEN <<>>
    ELSE IF from = to THEN t[from].data
    ELSE LET mid == (from + to) \div 2
         IN  Joined(t, from, mid) \o Joined(t, mid + 1, to)

\* the pixel bytes streamed after the last memory-write command of b
PixelBytes(b) ==
    LET t == Transactions(b)
        last == CHOOSE k \in RamWrites(t) : \A m \in RamWrites(t) : m <= k
    IN  IF RamWrites(t) = {} THEN <<>> ELSE Joined(t, last + 1, Len(t))

\* the data transactions after the last memory-write command of b
PixelWrites(b) ==
    LET t == Transactions(b)
        last == CHOOSE k \in RamWrites(t) : \A m \in RamWrites(t) : m <= k
    IN  IF RamWrites(t) = {} THEN <<>> ELSE SubSeq(t, last + 1, Len(t))

InBounds(win) ==
    /\ 0 <= win.x0 /\ win.x0 <= win.x1 /\ win.x1 < width
    /\ 0 <= win.y0 /\ win.y0 <= win.y1 /\ win.y1 < height

\* ---- the rectangle primitives, called with arguments around the edges
RectX == {-5, 0, 235, 240}
RectY == {-5, 0, 315}
RectW == {-3, 0, 5, 10, 250}
RectH == {0, 10, 330}
\* TEXT_YELLOW and TABLE_BORDER of the Blackjack game
Colours == {65504, 41285}

InitFill == InitEngine({FullGame})

NextFill ==
    \/ \E x \in RectX, y \in RectY, w \in RectW, h \in RectH :
          SafeFillRect(x, y, w, h, 65504)
    \/ \E x \in RectX, y \in RectY, w \in RectW, h \in RectH :
          FillRect(x, y, w, h, 65504)
    \/ \E c \in Colours : Clear(c)

SpecFill == InitFill /\ [][NextFill]_vars

\* ---- text drawn around the edges of the surface, measured and rendered
MaxTextLen == 31
HIT == <<72, 73, 84>>
LongText == [i \in 1..MaxTextLen |-> 65 + ((i - 1) % 26)]
TextPositions == {<<-5, -5>>, <<100, 100>>, <<236, 316>>}
TextStyles ==
    {[text |-> HIT, bg |-> None, scale |-> 1],
     [text |-> HIT, bg |-> None, scale |-> 0],
     [text |-> HIT, bg |-> None, scale |-> 2],
     [text |-> HIT, bg |-> 31, scale |-> 1],
     [text |-> HIT, bg |-> 31, scale |-> 0],
     [text |-> <<>>, bg |-> None, scale |-> 2],
     [text |-> LongText, bg |-> None, scale |-> 1]}
Scales == {-1, 0, 1, 2, 3}
SpriteStyles ==
    {[text |-> HIT, bg |-> None, scale |-> 2],
     [text |-> HIT, bg |-> 31, scale |-> 3],
     [text |-> HIT, bg |-> 31, scale |-> 1],
     [text |-> <<72>>, bg |-> None, scale |-> 0]}

InitText == InitEngine({FullGame})

NextText ==
    \/ \E p \in TextPositions, st \in TextStyles :
          DrawText(p[1], p[2], st.text, 65504, st.bg, st.scale)
    \/ \E text \in {<<>>, HIT, LongText}, scale \in Scales : GetTextSize(text, scale)
    \/ \E st \in SpriteStyles : MakeTextSprite(st.text, 65504, st.bg, st.scale)
    \/ ClearCaches

SpecText == InitText /\ [][NextText]_vars

\* ---- the driver's operations called one by one
WinX0 == {0, 5, 100}
WinX1 == {100, 239}
WinY0 == {0, 100, 256}
WinY1 == {256, 319}
ImageSizes == {<<0, 0>>, <<0, 2>>, <<-1, 2>>, <<2, 0>>, <<2, -2>>, <<2, 2>>, <<8, 8>>}
ImageBufs == {<<>>, Repeat2(255, 224, 4), Repeat2(255, 224, 64)}

InitDriver == InitEngine({FullGame})

NextDriver ==
    \/ \E x0 \in WinX0, x1 \in WinX1, y0 \in WinY0, y1 \in WinY1 :
          SetWindow(x0, y0, x1, y1)
    \/ \E x0 \in WinX0, x1 \in WinX1, y0 \in WinY0, y1 \in WinY1 :
          SetWindowForRead(x0, y0, x1, y1)
    \/ \E x \in {0, 10}, size \in ImageSizes, buf \in ImageBufs :
          DrawImage(x, 10, size[1], size[2], buf)
    \/ \E x \in {0, 10}, w \in {-3, 0, 5}, h \in {-1, 0, 10, 30}, c \in Colours :
          FillRect(x, 10, w, h, c)
    \/ InitDisplay

SpecDriver == InitDriver /\ [][NextDriver]_vars

Range(seq) == {seq[i] : i \in 1..Len(seq)}

\* ---- the Blackjack game, its callbacks invoked one by one
\* the time update waits between two dealer steps, in ms (2.0 s)
dealer_delay_ms == 2000

\* BlackjackGame._player_hit
player_hit(b, seed) ==
    LET drawn == draw_card_id(b.deck, seed)
        cards == Append(b.player_cards, drawn.card)
    IN  IF hand_value(cards) > 21
        THEN [b EXCEPT !.deck = drawn.deck, !.player_cards = cards,
                       !.status_text = TextBust, !.state = "round_over"]
        ELSE [b EXCEPT !.deck = drawn.deck, !.player_cards = cards,
                       !.status_text = TextYouHit]

\* BlackjackGame._player_stand
player_stand(b) ==
    [b EXCEPT !.player_final = hand_value(b.player_cards),
              !.status_text = TextDealersTurn,
              !.state = "dealer_turn",
              !.dealer_timer = 0]

\* BlackjackGame._dealer_step
dealer_step(b, seed) ==
    LET before == hand_value(b.dealer_cards)
    IN  IF b.player_final < before /\ before <= 21
        THEN [b EXCEPT !.status_text = TextDealerWins, !.state = "round_over"]
        ELSE IF before = b.player_final /\ before = 21
        THEN [b EXCEPT !.status_text = TextDraw, !.state = "round_over"]
        ELSE LET drawn == draw_card_id(b.deck, seed)
                 cards == Append(b.dealer_cards, drawn.card)
                 after == hand_value(cards)
             IN  IF after > 21
                 THEN [b EXCEPT !.deck = drawn.deck, !.dealer_cards = cards,
                                !.status_text = TextDealerBusts, !.state = "round_over"]
                 ELSE IF after > b.player_final
                 THEN [b EXCEPT !.deck = drawn.deck, !.dealer_cards = cards,
                                !.status_text = TextDealerWins, !.state = "round_over"]
                 ELSE [b EXCEPT !.deck = drawn.deck, !.dealer_cards = cards,
                                !.status_text = TextDealerHits]

\* a mutant: HIT is taken in every state of the game
OnLeftPressed_any_state(seed) ==
    /\ bj' = player_hit(bj, seed)
    /\ needs_redraw' = TRUE
    /\ bj_obs' = [bj_obs EXCEPT !.event = "on_left_pressed"]
    /\ UNCHANGED <<engine_vars, clock, game, obs_vars, gfx_vars>>

\* game.on_left_pressed(): HIT
OnLeftPressed(seed) ==
    /\ bj' = IF bj.state # "player_turn" THEN bj ELSE player_hit(bj, seed)
    /\ needs_redraw' = IF bj.state # "player_turn" THEN needs_redraw ELSE TRUE
    /\ bj_obs' = [bj_obs EXCEPT !.event = "on_left_pressed"]
    /\ UNCHANGED <<engine_vars, clock, game, obs_vars, gfx_vars>>

\* game.on_right_pressed(): STAND
OnRightPressed ==
    /\ bj' = IF bj.state # "player_turn" THEN bj ELSE player_stand(bj)
    /\ needs_redraw' = IF bj.state # "player_turn" THEN needs_redraw ELSE TRUE
    /\ bj_obs' = IF bj.state # "player_turn"
                 THEN [bj_obs EXCEPT !.event = "on_right_pressed"]
                 ELSE [event |-> "on_right_pressed", acc |-> 0, steps |-> 0]
    /\ UNCHANGED <<engine_vars, clock, game, obs_vars, gfx_vars>>

\* a mutant: the dealer steps on every update of its turn
BjUpdate_no_delay(dt, seed) ==
    /\ bj' = IF bj.state # "dealer_turn" THEN bj
             ELSE dealer_step([bj EXCEPT !.dealer_timer = bj.dealer_timer + dt], seed)
    /\ needs_redraw' = IF bj.state = "dealer_turn" THEN TRUE ELSE needs_redraw
    /\ bj_obs' = IF bj.state # "dealer_turn" THEN [bj_obs EXCEPT !.event = "update"]
                 ELSE [event |-> "update", acc |-> bj_obs.acc + dt,
                       steps |-> bj_obs.steps + 1]
    /\ UNCHANGED <<engine_vars, clock, game, obs_vars, gfx_vars>>

\* game.update(dt, input_state), dt being dt ms
BjUpdate(dt, seed) ==
    /\ LET due == bj.state = "dealer_turn" /\ bj.dealer_timer + dt >= dealer_delay_ms
       IN  /\ bj' = IF bj.state # "dealer_turn" THEN bj
                    ELSE IF ~due THEN [bj EXCEPT !.dealer_timer = bj.dealer_timer + dt]
                    ELSE dealer_step([bj EXCEPT !.dealer_timer =
                                          bj.dealer_timer + dt - dealer_delay_ms], seed)
           /\ needs_redraw' = IF due THEN TRUE ELSE needs_redraw
           /\ bj_obs' = IF bj.state # "dealer_turn" THEN [bj_obs EXCEPT !.event = "update"]
                        ELSE [event |-> "update", acc |-> bj_obs.acc + dt,
                              steps |-> bj_obs.steps + (IF due THEN 1 ELSE 0)]
    /\ UNCHANGED <<engine_vars, clock, game, obs_vars, gfx_vars>>

\* a mutant: reset starts a new round and keeps the caches
BjReset_keeps_caches(back, seed) ==
    /\ bj' = reset_round(bj, back, seed)
    /\ needs_redraw' = TRUE
    /\ bj_obs' = [bj_obs EXCEPT !.event = "reset"]
    /\ UNCHANGED <<engine_vars, clock, game, obs_vars, gfx_vars>>

\* game.reset(): card_sprites = {}, gfx.clear_caches(), _reset_round()
BjReset(back, seed) ==
    /\ bj' = reset_round([bj EXCEPT !.card_sprites = {}], back, seed)
    /\ needs_redraw' = TRUE
    /\ text_cache' = <<>>
    /\ renders' = <<>>
    /\ call' = Call("clear_caches", 0, 0, 0, 0, 0)
    /\ bus' = <<>>
    /\ ret' = <<>>
    /\ allocs' = <<>>
    /\ bj_obs' = [bj_obs EXCEPT !.event = "reset"]
    /\ UNCHANGED <<engine_vars, clock, game, obs_vars>>

\* the colours of the table, RGB565
TEXT_WHITE == 65535
TEXT_YELLOW == 65504
CARD_AREA_RED == 34816
btn_col == 25388

\* the layout computed by BlackjackGame.__init__
margin == 8
card_area_x == margin + 20
card_area_w == (width - 2 * margin) - 40
card_area_y == margin + 18
button_bar_y == margin + (height - 2 * margin) - 32
card_area_h == button_bar_y - card_area_y - 6
message_y == card_area_y + (card_area_h \div 2) - 4

\* str(n) for a hand value
Str(n) == IF n < 10 THEN <<48 + n>> ELSE <<48 + (n \div 10), 48 + (n % 10)>>

TextLabel(text, colour, bg) == [text |-> text, colour |-> colour, bg |-> bg]

\* the texts _draw_static_table and _draw_buttons_static draw, in order
StaticLabels ==
    <<TextLabel(<<68, 101, 97, 108, 101, 114>>, TEXT_WHITE, CARD_AREA_RED),
      TextLabel(<<80, 111, 105, 110, 116, 115, 58>>, TEXT_WHITE, CARD_AREA_RED),
      TextLabel(<<80, 108, 97, 121, 101, 114>>, TEXT_WHITE, CARD_AREA_RED),
      TextLabel(<<80, 111, 105, 110, 116, 115, 58>>, TEXT_WHITE, CARD_AREA_RED),
      TextLabel(HIT, TEXT_WHITE, btn_col),
      TextLabel(<<83, 84, 65, 78, 68>>, TEXT_WHITE, btn_col)>>

\* the texts _draw_points_only and _draw_buttons_and_status draw, in order
DynamicLabels(b) ==
    <<TextLabel(Str(hand_value(b.dealer_cards)), TEXT_YELLOW, CARD_AREA_RED),
      TextLabel(Str(hand_value(b.player_cards)), TEXT_YELLOW, CARD_AREA_RED),
      TextLabel(b.status_text, TEXT_WHITE, CARD_AREA_RED)>>

\* the cache and the rasterization counts after draw_text(..., scale=1) of each
\* of labels in turn, every one with a background and so through the cache
RECURSIVE labels_drawn(_, _, _)
labels_drawn(cache, counts, labels) ==
    IF labels = <<>> THEN [cache |-> cache, counts |-> counts]
    ELSE LET l == Head(labels)
             got == get_text_sprite(cache, l.text, l.colour, l.bg, 1)
             k == <<l.text, l.colour, l.bg, 1>>
         IN  labels_drawn(got.cache,
                          IF got.rendered = <<>> THEN counts
                          ELSE (k :> (IF k \in DOMAIN counts THEN counts[k] + 1 ELSE 1))
                                   @@ counts,
                          Tail(labels))

\* game.draw(gfx), invoked by run() when a redraw is requested: the static
\* table on the first call, then points, cards and status; the drawing call
\* on record is its last one, the status text
BjDraw ==
    /\ needs_redraw
    /\ LET labels == (IF bj.static_drawn THEN <<>> ELSE StaticLabels) \o DynamicLabels(bj)
           done == labels_drawn(text_cache, renders, labels)
           msg_x == card_area_x + (card_area_w - 8 * Len(bj.status_text)) \div 2
           last == draw_text(text_cache, msg_x, message_y, bj.status_text,
                             TEXT_WHITE, CARD_AREA_RED, 1)
       IN  /\ text_cache' = done.cache
           /\ renders' = done.counts
           /\ bus' = last.bus
           /\ call' = CallText("draw_text", msg_x, message_y, bj.status_text,
                               TEXT_WHITE, CARD_AREA_RED, 1)
           /\ allocs' = IF <<bj.status_text, TEXT_WHITE, CARD_AREA_RED, 1>>
                            \in DOMAIN text_cache THEN <<>>
                        ELSE render_text_sprite_bufs(bj.status_text, 1)
    /\ ret' = <<>>
    /\ bj' = [bj EXCEPT !.static_drawn = TRUE,
                        !.card_sprites = bj.card_sprites \cup Range(bj.dealer_cards)
                                             \cup Range(bj.player_cards)]
    /\ needs_redraw' = FALSE
    /\ bj_obs' = [bj_obs EXCEPT !.event = "draw"]
    /\ UNCHANGED <<engine_vars, clock, game, obs_vars>>

\* the states of the generator when a shuffle starts, the card backs drawn by
\* random.randint(1, 5), and the dt of a tick in ms
Seeds == {0, 1, 12345}
Backs == {1, 5}
Dts == {0, 500, 2500}

\* ---- the rules of the game: buttons, update and reset in any order
InitBlackjack ==
    InitWith({FullGame}, {BlackjackGame(back, seed) : back \in Backs, seed \in Seeds})

NextBlackjack ==
    \/ \E seed \in Seeds : OnLeftPressed(seed)
    \/ OnRightPressed
    \/ \E dt \in Dts, seed \in Seeds : BjUpdate(dt, seed)
    \/ \E back \in Backs, seed \in Seeds : BjReset(back, seed)

SpecBlackjack == InitBlackjack /\ [][NextBlackjack]_vars

\* ---- the same, run() going on for ever: ticks keep arriving, and among them
\* ticks with a positive dt
SpecDealer ==
    /\ InitBlackjack
    /\ [][NextBlackjack]_vars
    /\ WF_vars(\E dt \in Dts \ {0}, seed \in Seeds : BjUpdate(dt, seed))

\* ---- rounds played, drawn and reset
InitRound == InitWith({FullGame}, {BlackjackGame(1, 0)})

NextRound ==
    \/ OnLeftPressed(0)
    \/ OnRightPressed
    \/ BjUpdate(dealer_delay_ms, 0)
    \/ BjReset(5, 12345)
    \/ BjDraw

SpecRound == InitRound /\ [][NextRound]_vars

\* ------------------------------------------------------------- claims

\* the current tick has passed its gesture check
AfterGesture == pc \in {"update", "draw", "pace", "loop", "done"} /\ tick >= 1

\* C1: after _update_input, every button's just-pressed flag equals (raw level
\* this tick and not raw level on the preceding tick); over the recorded up
\* history a press is reported exactly on the ticks where up goes from released
\* to held, so F,T,T,F,T gives presses on ticks 2 and 5 only
C1_EdgeTriggered ==
    /\ \A btn \in ButtonSet :
          Pressed(current_input, btn) <=> (btn \in raws[2] /\ btn \notin raws[1])
    /\ \A i \in 1..Len(up_trace) :
          up_trace[i][2] <=> (up_trace[i][1] /\ (i > 1 => ~up_trace[i - 1][1]))

UpScenario == <<FALSE, TRUE, TRUE, FALSE, TRUE>>

\* C1 witness: the raw up sequence F,T,T,F,T has been sampled and up_pressed was
\* reported on ticks 2 and 5 only, button b being held without a new press
C1_Witness ==
    /\ Len(up_trace) = 5
    /\ \A i \in 1..5 : up_trace[i][1] = UpScenario[i]
    /\ {i \in 1..5 : up_trace[i][2]} = {2, 5}
    /\ "b" \in raws[1] /\ "b" \in raws[2] /\ ~current_input.b_pressed

\* C2 (as claimed): on every gesture check of a game exposing reset, reset is
\* invoked iff up is just-pressed, a candidate from an earlier up press is stored
\* and at most 400 ms have passed since that press
C2_FiresIffWithinThreshold ==
    [][(pc = "gesture" /\ "reset" \in game) =>
          (("reset" \in Range(calls')) <=>
             /\ current_input.up_pressed
             /\ cand_real # NoCand
             /\ clock - cand_real.clock <= double_tap_threshold_ms)]_vars

C4_ResetSkipsTick ==
    fired =>
        /\ Range(calls) \cap {"update", "draw", "present", "sleep_ms"} = {}
        /\ pc \in {"loop", "done"}
        /\ ticks_ms = now

\* C4 witness: up pressed on ticks 2 and 5, 200 ms apart; tick 5 fired the reset
C4_Witness ==
    /\ fired
    /\ tick = 5
    /\ Len(up_trace) = 5
    /\ {i \in 1..5 : up_trace[i][2]} = {2, 5}
    /\ clock = 33 + 200
    /\ calls = <<"on_up_pressed", "reset">>

\* C5: whatever rectangle safe_fill_rect is given, every memory write it causes
\* is addressed, and its window satisfies 0 <= x0 <= x1 < width and
\* 0 <= y0 <= y1 < height
C5_SafeFillRectInBounds ==
    call.op = "safe_fill_rect" =>
        LET t == Transactions(bus)
        IN  \A k \in RamWrites(t) : Addressed(t, k) /\ InBounds(WindowAt(t, k))

\* C5 witness: a rectangle larger than the surface on every side was drawn, the
\* window being the whole surface
C5_Witness ==
    /\ call.op = "safe_fill_rect"
    /\ call.x < 0 /\ call.y < 0 /\ call.x + call.w > width /\ call.y + call.h > height
    /\ Windows(bus) = {[x0 |-> 0, y0 |-> 0, x1 |-> width - 1, y1 |-> height - 1]}

\* the columns and rows of the surface a requested rectangle covers
ColsOf(c) == {i \in 0..(width - 1) : c.x <= i /\ i < c.x + c.w}
RowsOf(c) == {j \in 0..(height - 1) : c.y <= j /\ j < c.y + c.h}
Least(S) == CHOOSE m \in S : \A n \in S : m <= n
Greatest(S) == CHOOSE m \in S : \A n \in S : n <= m

\* the window that covers exactly the columns C and rows R
WindowOf(C, R) ==
    [x0 |-> Least(C), x1 |-> Greatest(C), y0 |-> Least(R), y1 |-> Greatest(R)]

\* C6: safe_fill_rect draws exactly the intersection of the requested rectangle
\* with the surface: nothing reaches the bus when the intersection is empty, and
\* otherwise one window, the intersection, is set and filled with its pixels
C6_SafeFillRectClips ==
    call.op = "safe_fill_rect" =>
        IF ColsOf(call) = {} \/ RowsOf(call) = {}
        THEN bus = <<>>
        ELSE /\ Cardinality(RamWrites(Transactions(bus))) = 1
             /\ Windows(bus) = {WindowOf(ColsOf(call), RowsOf(call))}
             /\ Len(PixelBytes(bus)) =
                   2 * Cardinality(ColsOf(call)) * Cardinality(RowsOf(call))
             /\ bus = fill_rect(Least(ColsOf(call)), Least(RowsOf(call)),
                                Cardinality(ColsOf(call)), Cardinality(RowsOf(call)),
                                call.colour)

\* C6 witness: safe_fill_rect(-5, 0, 10, 10) drew the rectangle x=0, y=0, w=5, h=10
C6_Witness ==
    /\ call.op = "safe_fill_rect"
    /\ call.x = -5 /\ call.y = 0 /\ call.w = 10 /\ call.h = 10
    /\ Windows(bus) = {[x0 |-> 0, y0 |-> 0, x1 |-> 4, y1 |-> 9]}
    /\ Len(PixelBytes(bus)) = 2 * 5 * 10

\* the rectangle of a call lies fully inside the surface
Inside(c) ==
    c.x >= 0 /\ c.y >= 0 /\ c.x + c.w <= width /\ c.y + c.h <= height

\* C7: fill_rect causes no bus event if w <= 0, h <= 0 or the rectangle is not
\* fully inside the surface; otherwise it sets the window (x, y, x+w-1, y+h-1)
\* and streams 2*w*h bytes under dc high, the colour's high byte then its low
\* byte for each of the w*h pixels, in writes of at most 64 pixels
C7_FillRectStream ==
    call.op \in {"fill_rect", "clear"} =>
        IF call.w <= 0 \/ call.h <= 0 \/ ~Inside(call)
        THEN bus = <<>>
        ELSE LET t == Transactions(bus)
                 px == PixelBytes(bus)
             IN  /\ RamWrites(t) = {5}
                 /\ Addressed(t, 5)
                 /\ WindowAt(t, 5) = [x0 |-> call.x, y0 |-> call.y,
                                      x1 |-> call.x + call.w - 1,
                                      y1 |-> call.y + call.h - 1]
                 /\ Len(px) = 2 * call.w * call.h
                 /\ \A i \in 1..Len(px) :
                       px[i] = IF i % 2 = 1 THEN (call.colour \div 256) % 256
                               ELSE call.colour % 256
                 /\ \A k \in 6..Len(t) :
                       t[k].dc = 1 /\ t[k].cs = 0 /\ Len(t[k].data) <= 128
                 /\ bus[Len(bus)] = PinEvent("cs", 1)

\* C7 witness: a rectangle of 100 pixels inside the surface was filled with
\* 0xFFE0 in two writes, the first of 64 pixels, high byte first
C7_Witness ==
    /\ call.op = "fill_rect"
    /\ call.x = 0 /\ call.y = 0 /\ call.w = 10 /\ call.h = 10
    /\ Len(PixelWrites(bus)) = 2
    /\ Len(PixelWrites(bus)[1].data) = 128
    /\ Len(PixelBytes(bus)) = 200
    /\ SubSeq(PixelBytes(bus), 1, 4) = <<255, 224, 255, 224>>

\* C8: for every non-empty text, scale and position, draw_text draws to one
\* window that has the size get_text_size gives and lies within the surface
C8_DrawTextStaysOnSurface ==
    (call.op = "draw_text" /\ call.text # <<>>) =>
        LET t == Transactions(bus)
            size == get_text_size(call.text, call.scale)
        IN  /\ RamWrites(t) = {5}
            /\ Addressed(t, 5)
            /\ InBounds(WindowAt(t, 5))
            /\ WindowAt(t, 5).x1 - WindowAt(t, 5).x0 + 1 = size[1]
            /\ WindowAt(t, 5).y1 - WindowAt(t, 5).y0 + 1 = size[2]
            /\ Len(PixelBytes(bus)) = 2 * size[1] * size[2]

\* C9: in a sprite rendered at a scale s > 1, both bytes of each pixel (dx, dy)
\* are those of pixel (dx div s, dy div s) of the text's 1x buffer, and the
\* sprite is 8 * len * s wide and 8 * s high
C9_NearestNeighbour ==
    (call.op = "make_text_sprite" /\ call.scale > 1) =>
        LET s == call.scale
            base_w == 8 * Len(call.text)
            base == small_buf(call.text, call.colour, call.bg)
        IN  /\ ret.w = base_w * s
            /\ ret.h = 8 * s
            /\ Len(ret.data) = 2 * ret.w * ret.h
            /\ \A dx \in 0..(base_w * s - 1), dy \in 0..(8 * s - 1), b \in 1..2 :
                  ret.data[2 * (dy * ret.w + dx) + b]
                      = base[2 * ((dy \div s) * base_w + dx \div s) + b]

\* C9 witness: "HIT" was rendered at scale 3 on a background, lit and unlit
\* pixels both present in the sprite
C9_Witness ==
    /\ call.op = "make_text_sprite"
    /\ call.text = HIT /\ call.scale = 3 /\ call.bg = 31
    /\ ret.w = 72 /\ ret.h = 24
    /\ \E i, j \in 1..Len(ret.data) :
          i % 2 = 1 /\ j % 2 = 1 /\ ret.data[i] = 0 /\ ret.data[j] = lo_byte(call.colour)

\* C10: get_text_size returns (8 * len * s, 8 * s), s the scale raised to
\* at least 1; for "HIT" at scale 2 that is (48, 16)
C10_TextSize ==
    call.op = "get_text_size" =>
        /\ ret = IF call.scale >= 1
                 THEN <<8 * Len(call.text) * call.scale, 8 * call.scale>>
                 ELSE <<8 * Len(call.text), 8>>
        /\ (call.text = HIT /\ call.scale = 2) => ret = <<48, 16>>

\* C10 witness: the size of a non-empty text was asked for at a scale below 1
C10_Witness ==
    /\ call.op = "get_text_size"
    /\ call.text = HIT /\ call.scale < 1
    /\ ret = <<24, 8>>

\* the scenario of C10: the size of "HIT" at scale 2
C10_Scenario ==
    call.op = "get_text_size" /\ call.text = HIT /\ call.scale = 2 /\ ret = <<48, 16>>

\* the current tick has passed its handler dispatch
AfterDispatch == pc \in {"gesture", "update", "draw", "pace", "loop", "done"} /\ tick >= 1

\* the button handlers invoked so far in the current tick, in order
HandlerCalls ==
    SelectSeq(calls, LAMBDA c : \E btn \in ButtonSet : c = HandlerName(btn))

\* the place of a handler in the order up, down, left, right, a, b
OrderOf(h) == CHOOSE i \in 1..Len(Buttons) : HandlerName(Buttons[i]) = h

\* C11: once a tick has dispatched, a button's handler has been invoked iff the
\* button is just-pressed this tick and the game exposes the handler, no handler
\* has been invoked twice, and the invocations are in the order up, down, left,
\* right, a, b
C11_DispatchOrder ==
    AfterDispatch =>
        /\ \A btn \in ButtonSet :
              HandlerName(btn) \in Range(HandlerCalls)
                  <=> (Pressed(current_input, btn) /\ HandlerName(btn) \in game)
        /\ \A i, j \in 1..Len(HandlerCalls) :
              i < j => OrderOf(HandlerCalls[i]) < OrderOf(HandlerCalls[j])

\* C11 witness: all six buttons were pressed on one tick of a game with every
\* handler, and the six handlers ran in order
C11_Witness ==
    /\ AfterDispatch
    /\ game = FullGame
    /\ \A btn \in ButtonSet : Pressed(current_input, btn)
    /\ HandlerCalls = <<"on_up_pressed", "on_down_pressed", "on_left_pressed",
                        "on_right_pressed", "on_a_pressed", "on_b_pressed">>

\* C11, a game without some handlers: left, right and b pressed together, only
\* the two handlers the game has were invoked
C11_PartialGame ==
    /\ AfterDispatch
    /\ game = PartialGame
    /\ \A btn \in ButtonSet : Pressed(current_input, btn)
    /\ HandlerCalls = <<"on_left_pressed", "on_b_pressed">>

\* the step of a tick an invocation belongs to: 2 dispatch, 3 gesture check,
\* 4 update, 5 draw, 6 pacing (1 being the input sample, which invokes nothing
\* of the game)
StepOf(c) ==
    CASE c = "reset" -> 3
      [] c = "update" -> 4
      [] c \in {"draw", "present"} -> 5
      [] c = "sleep_ms" -> 6
      [] OTHER -> 2

\* C12: every step of run() leads to the next one of the order sample,
\* dispatch, gesture check, update, draw (the gesture check alone may end the
\* tick); a tick starts only at the loop test, after the steps of the tick
\* before it; and what a tick has invoked is in the order of the steps
C12_StepOrder ==
    [][/\ pc = "input" => pc' = "dispatch"
       /\ pc = "dispatch" => pc' = "gesture"
       /\ pc = "gesture" => pc' \in {"update", "loop"}
       /\ pc = "update" => pc' = "draw"
       /\ pc = "draw" => pc' = "pace"
       /\ pc = "pace" => pc' = "loop"
       /\ pc' = "input" => pc = "loop"
       /\ tick' # tick => (pc = "loop" /\ tick' = tick + 1)
       /\ \A i, j \in 1..Len(calls') : i < j => StepOf(calls'[i]) <= StepOf(calls'[j])
      ]_vars

\* C12 witness: the second tick or a later one went through every step, a
\* handler, update and draw each invoked
C12_Witness ==
    /\ tick >= 2
    /\ pc = "pace"
    /\ calls = <<"on_left_pressed", "on_b_pressed", "update", "draw", "present">>

C13_Skipped ==
    /\ pc = "pace"
    /\ tick > run_start + 1
    /\ hook = "false"
    /\ calls = <<"update">>

\* the steps of a tick, between two loop tests
InTick == pc \in {"input", "dispatch", "gesture", "update", "draw", "pace"}

\* C14: run() returns only from the loop test and only when stop() has cleared
\* the running flag; a stop during a tick leaves the rest of the tick to run as
\* it would have (a callback that raises apart), and the loop test that follows
\* starts no tick and returns;
\* while the flag is set the loop test never returns
C14_StopAtTickBoundary ==
    [][/\ (pc' = "done" /\ pc # "done") => (pc = "loop" /\ ~running)
       /\ (InTick /\ ~running /\ failure' = "none") =>
             (pc' = IF pc = "gesture" /\ fired' THEN "loop" ELSE step_after[pc])
       /\ (pc = "loop" /\ ~running) => (pc' = "done" /\ tick' = tick)
       /\ (pc = "loop" /\ running) => pc' # "done"
       /\ (running /\ ~running') => pc \in {"dispatch", "update"}
      ]_vars

\* C14 witness: stop() was called during a tick whose handler dispatch, update,
\* draw and pacing sleep all ran, and run() then returned
C14_Witness ==
    /\ pc = "done"
    /\ ~running
    /\ tick >= 2
    /\ calls = <<"on_up_pressed", "update", "draw", "present", "sleep_ms">>

\* a draw_text call goes through the cached path: its text is not empty and it
\* asks for a background or for a scale above 1
CachedPath(c) ==
    c.op = "draw_text" /\ c.text # <<>> /\ ~(c.scale <= 1 /\ c.bg = None)

\* the cache key of a draw_text call, the scale raised to at least 1
KeyOf(c) == <<c.text, c.colour, c.bg, IF c.scale < 1 THEN 1 ELSE c.scale>>

\* C15: clear_caches leaves the cache empty; every other call leaves each entry
\* of the cache in place with its sprite, and adds the key of the call when the
\* call is a draw_text through the cached path, and nothing else
C15_CacheAppendOnly ==
    [][IF call'.op = "clear_caches"
       THEN text_cache' = <<>>
       ELSE /\ \A k \in DOMAIN text_cache :
                  k \in DOMAIN text_cache' /\ text_cache'[k] = text_cache[k]
            /\ DOMAIN text_cache' =
                  DOMAIN text_cache
                      \cup (IF CachedPath(call') THEN {KeyOf(call')} ELSE {})
      ]_vars

\* C15 witness: a text was drawn with a background at a scale below 1, its key
\* (at scale 1) being one of the two keys the cache holds
C15_Witness ==
    /\ CachedPath(call)
    /\ call.scale < 1
    /\ Cardinality(DOMAIN text_cache) = 2
    /\ KeyOf(call) \in DOMAIN text_cache

\* the scale draw_text works with, and the position it draws a box of w by h at
EffScale(c) == IF c.scale < 1 THEN 1 ELSE c.scale
ClampedX(c, w) == Min2(Max2(0, c.x), width - w)
ClampedY(c, h) == Min2(Max2(0, c.y), height - h)

\* a step that draws a non-empty text: when fast holds, the cache is left
\* alone, the bytearrays allocated are fast_bufs, and one 1x image of the text is
\* sent to the clamped position; otherwise the sprite under the key of the call
\* is in the cache afterwards, built by _render_text_sprite if the key was not
\* there and the cache untouched if it was, and that sprite is sent to the
\* clamped position
DrawTextStep(fast, fast_bufs) ==
    (call'.op = "draw_text" /\ call'.text # <<>>) =>
        LET k == KeyOf(call')
            w == 8 * Len(call'.text) * EffScale(call')
            h == 8 * EffScale(call')
        IN  IF fast
            THEN /\ text_cache' = text_cache
                 /\ allocs' = fast_bufs
                 /\ Len(PixelBytes(bus')) = 2 * w * h
                 /\ bus' = blit_rgb565(ClampedX(call', w), ClampedY(call', h), w, h,
                                       PixelBytes(bus'))
            ELSE /\ k \in DOMAIN text_cache'
                 /\ k \in DOMAIN text_cache =>
                       (text_cache' = text_cache /\ allocs' = <<>>)
                 /\ k \notin DOMAIN text_cache =>
                       /\ text_cache'[k] = render_text_sprite(k[1], k[2], k[3], k[4])
                       /\ allocs' = render_text_sprite_bufs(k[1], k[4])
                 /\ bus' = blit_rgb565(ClampedX(call', w), ClampedY(call', h),
                                       text_cache'[k].w, text_cache'[k].h,
                                       text_cache'[k].data)

\* C16 (as claimed): with scale 1 and no background draw_text rasterizes
\* without an intermediate buffer and leaves the cache alone; with any other
\* background and scale it draws the cached sprite of the key
C16_FastPathUnbuffered ==
    [][DrawTextStep(call'.scale = 1 /\ call'.bg = None, <<>>)]_vars

\* C16 (amended): with no background and a scale of at most 1 draw_text leaves
\* the cache alone and has the driver build the whole 1x image in a bytearray of
\* 2 * 8 * len * 8 bytes, which is sent in one piece; with a background or a
\* scale above 1 it draws the cached sprite of the key
C16_PathByBgAndScale ==
    [][DrawTextStep(EffScale(call') = 1 /\ call'.bg = None,
                    <<2 * 8 * Len(call'.text) * 8>>)]_vars

\* C16 witness: "HIT" was drawn at scale 1 without a background while the cache
\* held a sprite of "HIT": one bytearray of 384 bytes was allocated and sent
C16_Witness ==
    /\ call.op = "draw_text" /\ call.text = HIT /\ call.scale = 1 /\ call.bg = None
    /\ DOMAIN text_cache # {}
    /\ KeyOf(call) \notin DOMAIN text_cache
    /\ allocs = <<384>>
    /\ Len(PixelBytes(bus)) = 384

\* a data transaction carrying the two bounds lo and hi, each as a 16-bit
\* big-endian number
IsBounds(t, lo, hi) ==
    /\ t.dc = 1
    /\ t.data = <<lo \div 256, lo % 256, hi \div 256, hi % 256>>

\* C17: _set_window and _set_window_for_read each cause exactly five bus
\* transactions: command 0x2A, the x bounds, command 0x2B, the y bounds, and
\* command 0x2C for _set_window, 0x2E for _set_window_for_read
C17_WindowSequence ==
    call.op \in {"set_window", "set_window_for_read"} =>
        LET t == Transactions(bus)
        IN  /\ Len(t) = 5
            /\ IsCmd(t[1], 42)
            /\ IsBounds(t[2], call.x, call.x + call.w - 1)
            /\ IsCmd(t[3], 43)
            /\ IsBounds(t[4], call.y, call.y + call.h - 1)
            /\ IsCmd(t[5], IF call.op = "set_window" THEN 44 ELSE 46)

\* C17 witness: _set_window(5, 256, 239, 319), the row bounds needing their
\* high bytes
C17_Witness ==
    /\ call.op = "set_window"
    /\ call.x = 5 /\ call.y = 256 /\ call.w = 235 /\ call.h = 64
    /\ Transactions(bus)[4].data = <<1, 0, 1, 63>>
    /\ Transactions(bus)[5].data = <<44>>

\* C17, the read variant: _set_window_for_read(5, 256, 239, 319) ended with 0x2E
C17_ReadVariant ==
    /\ call.op = "set_window_for_read"
    /\ call.x = 5 /\ call.y = 256 /\ call.w = 235 /\ call.h = 64
    /\ Transactions(bus)[4].data = <<1, 0, 1, 63>>
    /\ Transactions(bus)[5].data = <<46>>

\* C18 (as claimed): fill_rect and draw_image_rgb565 given a width or a height
\* that is not positive cause no bus event at all
C18_DegenerateNoOp ==
    (call.op \in {"fill_rect", "draw_image_rgb565"} /\ (call.w <= 0 \/ call.h <= 0))
        => bus = <<>>

\* C18, the part that holds: fill_rect given a width or a height that is not
\* positive causes no bus event
C18_FillRectDegenerate ==
    (call.op = "fill_rect" /\ (call.w <= 0 \/ call.h <= 0)) => bus = <<>>

\* C19: once update or draw has raised, run() has been left from that very
\* call: the call that raised is the last thing the tick invoked, and from then
\* on nothing is invoked, no tick is started and nothing of the engine changes
C19_FailFast ==
    [][/\ failure' # "none" =>
             /\ pc' = "raised"
             /\ calls' # <<>> /\ calls'[Len(calls')] = failure'
       /\ failure # "none" => UNCHANGED <<engine_vars, env_vars, obs_vars>>
      ]_vars

\* C19 witness: update raised on the third tick or later, after a handler ran
C19_Witness ==
    /\ failure = "update"
    /\ pc = "raised"
    /\ tick >= 3
    /\ calls = <<"on_up_pressed", "update">>

\* C19, a failing draw: draw raised, present was not invoked
C19_DrawFailed ==
    /\ failure = "draw"
    /\ pc = "raised"
    /\ calls = <<"update", "draw">>
    /\ first_frame

\* the place in b of each SPI write, in order
WriteIndexes(b) == SelectSeq([i \in 1..Len(b) |-> i], LAMBDA i : b[i].op = "write")

\* the kind of a controller command: 0 software reset, 1 power settings, 2 VCOM,
\* 3 memory-access control, 4 pixel format, 5 frame rate, 6 display-function
\* control, 7 gamma, 8 sleep-out, 9 display-on
KindOf(cmd) ==
    CASE cmd = 1 -> 0
      [] cmd \in {207, 237, 232, 203, 247, 234, 192, 193} -> 1
      [] cmd = 197 -> 2
      [] cmd = 54 -> 3
      [] cmd = 58 -> 4
      [] cmd = 177 -> 5
      [] cmd = 182 -> 6
      [] cmd \in {242, 38, 225} -> 7
      [] cmd = 17 -> 8
      [] cmd = 41 -> 9
      [] OTHER -> 10

\* a sleep of at least ms is the event of b at place i
SleepsAt(b, i, ms) == i <= Len(b) /\ b[i].op = "sleep" /\ b[i].val >= ms

\* C20: bring-up drives the reset line low for at least 50 ms and high for at
\* least 50 ms before anything is written to the bus; the configuration
\* commands come in the order power settings, VCOM, memory-access control,
\* pixel format, frame rate, display-function control, gamma, every kind
\* present and every command followed at once by its parameters; the last two
\* transactions are sleep-out, followed by at least 120 ms, and display-on,
\* followed by at least 20 ms
C20_BringUp ==
    call.op = "init_display" =>
        LET t == Transactions(bus)
            at == WriteIndexes(bus)
            n == Len(t)
            cmds == {k \in 1..n : t[k].dc = 0}
        IN  /\ bus[1] = PinEvent("rst", 0) /\ SleepsAt(bus, 2, 50)
            /\ bus[3] = PinEvent("rst", 1) /\ SleepsAt(bus, 4, 50)
            /\ at[1] > 4
            /\ \A k \in cmds : Len(t[k].data) = 1 /\ KindOf(t[k].data[1]) <= 9
            /\ \A j, k \in cmds : j < k => KindOf(t[j].data[1]) <= KindOf(t[k].data[1])
            /\ \A kind \in 1..7 : \E k \in cmds : KindOf(t[k].data[1]) = kind
            /\ \A k \in cmds : KindOf(t[k].data[1]) \in 1..7 =>
                  /\ k + 2 <= n /\ t[k + 1].dc = 1 /\ t[k + 1].data # <<>>
                  /\ t[k + 2].dc = 0
            /\ \A k \in 1..n : t[k].dc = 1 => (k > 1 /\ t[k - 1].dc = 0)
            /\ IsCmd(t[n - 1], 17) /\ IsCmd(t[n], 41)
            /\ \E i \in (at[n - 1] + 1)..(at[n] - 1) : SleepsAt(bus, i, 120)
            /\ SleepsAt(bus, Len(bus), 20)

\* C20 witness: the display was brought up; 19 commands went out, the first a
\* software reset, and 35 transactions in all
C20_Witness ==
    /\ call.op = "init_display"
    /\ Len(Transactions(bus)) = 35
    /\ Cardinality({k \in 1..35 : Transactions(bus)[k].dc = 0}) = 19
    /\ IsCmd(Transactions(bus)[1], 1)
    /\ bus[Len(bus)] = SleepEvent(20)

\* the command bytes of _init_display, in the order it sends them
InitCommands ==
    <<1, 207, 237, 232, 203, 247, 234, 192, 193, 197, 54, 58, 177, 182, 242, 38,
      225, 17, 41>>

\* the command bytes the operation of call c has to send, in order
CommandsOf(c) ==
    CASE c.op \in {"set_window", "draw_image_rgb565"} -> <<42, 43, 44>>
      [] c.op = "set_window_for_read" -> <<42, 43, 46>>
      [] c.op = "fill_rect" ->
            IF c.w <= 0 \/ c.h <= 0 \/ ~Inside(c) THEN <<>> ELSE <<42, 43, 44>>
      [] c.op = "init_display" -> InitCommands
      [] OTHER -> <<>>

\* the transactions of b sent under dc low, in order
LowDc(b) == SelectSeq(Transactions(b), LAMBDA t : t.dc = 0)

\* C21: after any driver operation, every SPI write was made with chip-select
\* low, chip-select is high again at the end, and the transactions sent with
\* the command/data line low are exactly the operation's command bytes, one
\* byte each and in order, so every parameter and pixel transaction (the
\* chunks of fill_rect included) was sent with the line high
C21_BusFraming ==
    /\ \A k \in 1..Len(Transactions(bus)) : Transactions(bus)[k].cs = 0
    /\ PinLevel(bus, "cs", Len(bus) + 1, 1) = 1
    /\ LowDc(bus) = [i \in 1..Len(CommandsOf(call)) |->
                        [dc |-> 0, cs |-> 0, data |-> <<CommandsOf(call)[i]>>]]

\* C21 witness: fill_rect streamed 150 pixels in three writes, every one under
\* dc high and cs low, after its three command bytes
C21_Witness ==
    /\ call.op = "fill_rect" /\ call.w * call.h = 150
    /\ Len(PixelWrites(bus)) = 3
    /\ \A k \in 1..3 : PixelWrites(bus)[k].dc = 1 /\ PixelWrites(bus)[k].cs = 0
    /\ Len(LowDc(bus)) = 3
    /\ bus[Len(bus)] = PinEvent("cs", 1)

\* C22 (as claimed): the stored candidate is empty or the timestamp of the most
\* recent tick on which up was just-pressed without a double-tap firing; an up
\* press with no candidate, or with a candidate recorded more than 400 ms
\* earlier, stores this tick's timestamp; a tick without an up press, and every
\* other step of run(), leaves the candidate as it was
C22_CandidateTracksLastPress ==
    [][/\ last_up_press_time' # None =>
              /\ cand_real' # NoCand
              /\ last_up_press_time' = cand_real'.clock % TICKS_PERIOD
       /\ (pc = "gesture" /\ current_input.up_pressed
              /\ (last_up_press_time = None
                    \/ clock - cand_real.clock > double_tap_threshold_ms)) =>
              /\ last_up_press_time' = now
              /\ ~fired'
       /\ (pc # "gesture" \/ ~current_input.up_pressed) =>
              last_up_press_time' = last_up_press_time]_vars

\* C22, the case that holds: a second up press 410 ms after the first replaced
\* the candidate with its own timestamp and fired nothing
C22_Overwritten ==
    /\ pc = "update"
    /\ current_input.up_pressed
    /\ up_outcomes = <<"cand", "cand">>
    /\ last_up_press_time = now /\ now >= 410
    /\ ~fired

\* ---- the pacing step, for ticks whose work ends around the frame time
MaxPaceTicks == 3
PaceWorkMs == {0, 10, 32, 33, 34, 200}

InitPace == InitEngine({FullGame, BareGame})

NextPace ==
    \/ Run
    \/ BeginTick(MaxPaceTicks)
    \/ \E raw \in UpRaws : UpdateInput(raw, FALSE)
    \/ DispatchInputEvents(FALSE, FALSE)
    \/ GestureCheck
    \/ \E rq \in BOOLEAN : GameUpdate(rq, FALSE)
    \/ Draw
    \/ \E w \in PaceWorkMs : Pace(w)

SpecPace == InitPace /\ [][NextPace]_vars

\* the real time a pacing step took apart from its sleep: from the tick's start
\* timestamp (the clock does not move before the pacing step) to the end of
\* the draw step
ElapsedOfStep == (clock' - clock) - (IF slept' = None THEN 0 ELSE slept')

\* C23 (as claimed): the pacing step sleeps exactly 1/target_fps s minus the
\* elapsed time when that is positive, and not at all otherwise; in units of
\* 1/target_fps ms, so that the period is the whole number 1000
C23_SleepsExactPeriod ==
    [][pc = "pace" =>
          IF 1000 - ElapsedOfStep * target_fps > 0
          THEN slept' # None /\ slept' * target_fps = 1000 - ElapsedOfStep * target_fps
          ELSE slept' = None]_vars

\* C23 (amended): with the target period 1/target_fps truncated to whole
\* milliseconds (33 ms at 30 frames per second) and the elapsed time in whole
\* milliseconds, the pacing step sleeps exactly period - elapsed when that is
\* positive and does not sleep otherwise; a tick cut short by a double-tap
\* never sleeps
C23_SleepsTruncatedPeriod ==
    [][/\ pc = "pace" =>
              IF 1000 \div target_fps - ElapsedOfStep > 0
              THEN /\ slept' = 1000 \div target_fps - ElapsedOfStep
                   /\ calls' = Append(calls, "sleep_ms")
              ELSE /\ slept' = None
                   /\ calls' = calls
       /\ pc # "pace" => "sleep_ms" \notin Range(calls')]_vars

\* C23 witness: three ticks have been paced, the first after 10 ms of work with
\* a sleep of 23 ms, the second after 33 ms of work with no sleep, the third
\* after 32 ms of work with a sleep of 1 ms
C23_Witness ==
    /\ tick = 3 /\ pc = "loop"
    /\ clock = 33 + 33 + 33
    /\ now = 66
    /\ slept = 1
    /\ calls[Len(calls)] = "sleep_ms"

\* C24: between two clear_caches calls no key is rasterized twice; a draw_text
\* through the cached path whose key has been rasterized since the cache was
\* last emptied rasterizes nothing, allocates nothing and sends the bytes of
\* the sprite stored for that key, which stays as it is; one whose key has not
\* been rasterized since then (never, or only before the last clear_caches)
\* rasterizes it, once
C24_Memoized ==
    [][/\ \A k \in DOMAIN renders' : renders'[k] = 1
       /\ CachedPath(call') =>
              LET k == KeyOf(call')
              IN  IF k \in DOMAIN renders
                  THEN /\ renders' = renders
                       /\ allocs' = <<>>
                       /\ k \in DOMAIN text_cache
                       /\ text_cache'[k] = text_cache[k]
                       /\ PixelBytes(bus') = text_cache[k].data
                  ELSE /\ DOMAIN renders' = DOMAIN renders \cup {k}
                       /\ allocs' # <<>>
                       /\ PixelBytes(bus') = render_text_sprite(k[1], k[2], k[3], k[4]).data
       /\ ~CachedPath(call') => renders' \in {renders, <<>>}]_vars

\* C24 witness: two keys have been rasterized since the cache was last emptied,
\* and "HIT" on a background has just been drawn again at scale 1 from its
\* stored sprite, nothing being allocated
C24_Witness ==
    /\ CachedPath(call) /\ call.text = HIT /\ call.bg = 31 /\ call.scale = 1
    /\ Cardinality(DOMAIN renders) = 2
    /\ renders[KeyOf(call)] = 1
    /\ allocs = <<>>
    /\ PixelBytes(bus) = text_cache[KeyOf(call)].data
    /\ Len(PixelBytes(bus)) = 384

\* C25: after BlackjackGame.reset(), whatever the state it was called in, the
\* state is player_turn, the player and the dealer hold one card each, the 50
\* cards of the deck and the two dealt are the 52 cards of a full deck, the
\* text cache of the graphics layer and the card-sprite cache of the game are
\* empty, and a redraw is requested
C25_ResetStartsNewRound ==
    bj_obs.event = "reset" =>
        /\ bj.state = "player_turn"
        /\ Len(bj.player_cards) = 1 /\ Len(bj.dealer_cards) = 1
        /\ Len(bj.deck) = 50
        /\ Range(bj.deck) \cup Range(bj.player_cards) \cup Range(bj.dealer_cards)
              = 0..(NumSuits * NumRanks - 1)
        /\ bj.dealer_timer = 0
        /\ text_cache = <<>>
        /\ bj.card_sprites = {}
        /\ needs_redraw

\* C25 witness: a round was drawn, so that both caches were filled, and then
\* reset: the new round is dealt from the deck shuffled by reset and the caches
\* are empty
C25_Witness ==
    /\ bj_obs.event = "reset"
    /\ bj.static_drawn
    /\ bj.dealer_back_sprite = 5
    /\ bj.player_cards = <<51>>
    /\ Len(bj.deck) = 50
    /\ text_cache = <<>> /\ bj.card_sprites = {}

\* C25, the states reset is called in: round_over after a bust, drawn, with
\* sprites in both caches
C25_BeforeReset ==
    /\ bj.state = "round_over"
    /\ bj.status_text = TextBust
    /\ bj_obs.event = "draw"
    /\ Cardinality(bj.card_sprites) >= 4
    /\ Cardinality(DOMAIN text_cache) >= 8

\* C26: the state of the game is always player_turn, dealer_turn or
\* round_over; a left or right press in dealer_turn or round_over changes no
\* field of the game (hands, deck, status text, state); the state changes only
\* from player_turn to round_over by a hit that busts, from player_turn to
\* dealer_turn by a stand, from dealer_turn to round_over by a dealer step of
\* update, and from any state to player_turn by reset
C26_StateMachine ==
    [][/\ bj'.state \in {"player_turn", "dealer_turn", "round_over"}
       /\ (bj_obs'.event \in {"on_left_pressed", "on_right_pressed"}
              /\ bj.state \in {"dealer_turn", "round_over"}) =>
              (bj' = bj /\ needs_redraw' = needs_redraw)
       /\ bj_obs'.event \in {"on_left_pressed", "on_right_pressed"} =>
              (bj' # bj => bj.state = "player_turn")
       /\ bj'.state # bj.state =>
              \/ /\ bj.state = "player_turn" /\ bj'.state = "round_over"
                 /\ bj_obs'.event = "on_left_pressed"
                 /\ Len(bj'.player_cards) = Len(bj.player_cards) + 1
                 /\ hand_value(bj'.player_cards) > 21
              \/ /\ bj.state = "player_turn" /\ bj'.state = "dealer_turn"
                 /\ bj_obs'.event = "on_right_pressed"
              \/ /\ bj.state = "dealer_turn" /\ bj'.state = "round_over"
                 /\ bj_obs'.event = "update" /\ bj_obs'.steps = bj_obs.steps + 1
              \/ /\ bj'.state = "player_turn"
                 /\ bj_obs'.event = "reset"
       /\ bj_obs'.event = "reset" => bj'.state = "player_turn"]_vars

\* C26 witness: the dealer won the round, and a left press made in round_over
\* changed nothing: the status still is "Dealer wins!" and the player holds the
\* three cards stood on
C26_Witness ==
    /\ bj.state = "round_over"
    /\ bj_obs.event = "on_left_pressed"
    /\ bj.status_text = TextDealerWins
    /\ Len(bj.player_cards) = 3
    /\ bj.player_final = hand_value(bj.player_cards)
    /\ Len(bj.dealer_cards) >= 3

\* C29: an update in dealer_turn runs at most one dealer step, and runs none
\* before the dt given to update since the stand add up to 2.0 s for every
\* step run so far, this one included; a dealer step ends the round or leaves
\* the game in dealer_turn with exactly one card more in the dealer's hand, and
\* a card it takes is the top of the deck, a card of the pack; without a step
\* hands, deck and state stay as they are; and once the game is in dealer_turn
\* it reaches round_over, unless it is reset
C29_DealerTurnEnds ==
    /\ [][(bj_obs'.event = "update" /\ bj.state = "dealer_turn") =>
              /\ bj_obs'.steps \in {bj_obs.steps, bj_obs.steps + 1}
              /\ bj_obs'.acc >= dealer_delay_ms * bj_obs'.steps
              /\ bj'.player_cards = bj.player_cards
              /\ IF bj_obs'.steps = bj_obs.steps
                 THEN /\ bj'.dealer_cards = bj.dealer_cards
                      /\ bj'.deck = bj.deck
                      /\ bj'.state = "dealer_turn"
                 ELSE /\ \/ bj'.state = "round_over"
                         \/ /\ bj'.state = "dealer_turn"
                            /\ Len(bj'.dealer_cards) = Len(bj.dealer_cards) + 1
                      /\ \/ bj'.dealer_cards = bj.dealer_cards /\ bj'.deck = bj.deck
                         \/ /\ bj.deck # <<>>
                            /\ bj'.dealer_cards =
                                  Append(bj.dealer_cards, bj.deck[Len(bj.deck)])
                            /\ bj'.deck = SubSeq(bj.deck, 1, Len(bj.deck) - 1)
                            /\ bj.deck[Len(bj.deck)] \in 0..(NumSuits * NumRanks - 1)]_vars
    /\ (bj.state = "dealer_turn") ~> (bj.state = "round_over" \/ bj_obs.event = "reset")

\* C29 witness: the dealer's turn ended with its second step, 4 s and more of
\* dt after the stand, the dealer holding the three cards dealt and taken
C29_Witness ==
    /\ bj.state = "round_over"
    /\ bj_obs.event = "update"
    /\ bj_obs.steps = 2
    /\ bj_obs.acc >= 2 * dealer_delay_ms
    /\ Len(bj.dealer_cards) = 3

\* C27: on a tick on which the double-tap fired, the handler of every button
\* that went from released to held on this tick has been invoked if the game
\* has it, on_up_pressed first, and the game's reset has been invoked after all
\* of them, as the last callback of the tick
C27_HandlersBeforeReset ==
    fired =>
        /\ "up" \in raws[2] \ raws[1]
        /\ \A btn \in raws[2] \ raws[1] :
              HandlerName(btn) \in game => HandlerName(btn) \in Range(calls)
        /\ "on_up_pressed" \in game => calls[1] = "on_up_pressed"
        /\ "reset" \in game =>
              /\ calls # <<>>
              /\ calls[Len(calls)] = "reset"
              /\ \A i \in 1..(Len(calls) - 1) :
                    \E btn \in ButtonSet : calls[i] = HandlerName(btn)
        /\ pc \in {"loop", "done"}

\* C27 witness: the second up press came together with a left press, and the
\* tick invoked on_up_pressed, on_left_pressed and then reset, and nothing more
C27_Witness ==
    /\ fired
    /\ game = FullGame
    /\ raws[2] \ raws[1] = {"up", "left"}
    /\ calls = <<"on_up_pressed", "on_left_pressed", "reset">>
    /\ pc = "loop"

\* C28: for a game with the should_redraw hook of GameBase, within a tick the
\* flag needs_redraw goes from set to clear only in the step that invokes
\* draw; a tick that reaches its draw step with the flag set invokes draw; so
\* at the pacing step of every tick, which a tick reaches unless the
\* double-tap cut it short, no request is pending, and a request made by a
\* handler or by update on that tick was drawn on that tick
C28_RedrawNeverLost ==
    []["should_redraw" \in game =>
          /\ (needs_redraw /\ ~needs_redraw' /\ tick' = tick) =>
                 /\ pc = "draw"
                 /\ calls' = calls \o <<"draw", "present">>
          /\ (pc = "draw" /\ needs_redraw) =>
                 /\ "draw" \in Range(calls') /\ "draw" \notin Range(calls)
                 /\ hook' = "true"
          /\ (pc \in {"dispatch", "update"} /\ ~needs_redraw /\ needs_redraw') =>
                 pc' \in {"gesture", "draw"}
          /\ (pc' = "pace" /\ failure' = "none") => ~needs_redraw'
          /\ (pc = "gesture" /\ fired') => pc' = "loop"
          /\ (pc = "gesture" /\ ~fired') => pc' = "update"]_vars

\* C28 witness: the tick after a tick cut short by the double-tap, whose reset
\* had requested a redraw: update ran, the hook returned true and draw was
\* invoked, the flag being clear at the pacing step
C28_Witness ==
    /\ game = FullGame
    /\ pc = "pace" /\ tick >= 4
    /\ up_outcomes # <<>> /\ up_outcomes[Len(up_outcomes)] = "fire"
    /\ ~current_input.up_pressed
    /\ raws[1] = {"up"}
    /\ hook = "true"
    /\ calls = <<"update", "draw", "present">>
    /\ ~needs_redraw

\* C28, the same tick: on a tick after the first a handler requested a redraw
\* and the tick drew it
C28_SameTick ==
    /\ game = FullGame
    /\ pc = "pace" /\ tick - run_start >= 2
    /\ hook = "true"
    /\ calls = <<"on_up_pressed", "update", "draw", "present">>
    /\ ~needs_redraw

\* C30: the double-tap never fires on two consecutive ticks: a tick on which it
\* fires comes at least four ticks after the tick on which it fired before,
\* and on an engine just constructed it does not fire before the third tick
C30_FiresFarApart ==
    [][(pc = "gesture" /\ fired') =>
          /\ tick >= 3
          /\ last_fire_tick # None => tick - last_fire_tick >= 4
          /\ last_fire_tick' = tick]_vars

\* C30 witness: the double-tap fired on tick 3 and again on tick 7, the engine
\* not stopped in between
C30_Witness ==
    /\ pc = "loop" /\ fired /\ tick = 7 /\ run_start = 0
    /\ up_outcomes = <<"fire", "cand", "fire">>
    /\ last_fire_tick = 7
    /\ cand_real = NoCand

\* C30, the earliest double-tap: it fired on tick 3
C30_ThirdTick ==
    /\ pc = "loop" /\ fired /\ tick = 3 /\ last_fire_tick = 3

====
